---- MODULE Spec2Model ----
(***************************************************************************)
(* Model of roombapy: the retrying transport adapter                       *)
(* (roombapy/remote_client.py), the Roomba connection lifecycle in         *)
(* continuous and periodic mode, and the state reconstructor               *)
(* (roombapy/roomba.py: dict_merge, decode_topics, update_state_machine).  *)
(*                                                                         *)
(* Python None is the string "None".  A JSON value is a tagged record:     *)
(* Leaf(v) for a scalar (every scalar is written as a string) and Dict(f)  *)
(* for an object, f a function from key strings to values.                 *)
(***************************************************************************)
EXTENDS Integers, Sequences, FiniteSets, TLC

VARIABLES
    \* ---- Roomba fields (roomba.py, Roomba.__init__) ----
    continuous,                    \* self.continuous
    stop_connection,               \* self.stop_connection
    periodic_connection_running,   \* self.periodic_connection_running
    roomba_connected,              \* self.roomba_connected
    client_error,                  \* self.client_error
    on_disconnect_callbacks,       \* behaviour of each registered observer
    thread_pc,                     \* position of self._thread
    subscribed,                    \* topics subscribed on the transport
    \* ---- RoombaRemoteClient and the pub/sub client it wraps ----
    was_connected,                 \* self.was_connected
    mqtt_loop,                     \* delivery loop running (loop_start/loop_stop)
    mqtt_session,                  \* "down", "connack", "up", "closing"
    \* ---- history of the last calls (observation only) ----
    conn,                          \* last RoombaRemoteClient.connect() call
    call,                          \* last Roomba.connect() call
    connect_calls,                 \* number of Roomba.connect() calls so far
    last_disc,                     \* last Roomba.on_disconnect() dispatch
    last_cb,                       \* last transport callback translation
    loop_hist,                     \* history of the periodic loop
    \* ---- state reconstructor (roomba.py) ----
    master_state,                  \* self.master_state
    cleanMissionStatus_phase,      \* self.cleanMissionStatus_phase
    previous_cleanMissionStatus_phase,
    current_state,                 \* self.current_state
    bin_full,                      \* self.bin_full
    co_ords,                       \* self.co_ords
    error_code,                    \* self.error_code
    error_message,                 \* self.error_message
    on_message_callbacks,          \* behaviour of each registered observer
    msg_hist,                      \* last on_message / update_state_machine call
    last_dispatch,                 \* last dispatch to the message observers
    last_payload,                  \* msg.payload of the last on_message call
    prev_merge,                    \* the dict_merge call before the last one
    clock,                         \* time.time(), in seconds since construction
    self_time,                     \* self.time: when the tree was last walked in full
    \* ---- hostname validation (roomba_info.py) ----
    hostname,                      \* the value handed to the validator
    hostname_result,               \* what the validator did with it
    \* ---- discovery (discovery.py) ----
    discovery_pc,                  \* position of get_all()
    broadcasts,                    \* probe datagrams sent so far
    robots,                        \* the set get_all() builds
    received,                      \* datagrams recvfrom has returned
    last_decode,                   \* last _decode_data call
    \* ---- credential exchange (getpassword.py) ----
    pw_pc,                         \* position of get_password()
    pw_rest,                       \* bytes the robot has still to deliver
    raw_data,                      \* bytes accumulated by _get_response
    response_length,               \* the declared remaining length
    pw_reads,                      \* what each recv returned, in order
    pw_result,                     \* what get_password() came to
    \* ---- the dict objects behind the trees (roomba.py, dict_merge) ----
    heap,                          \* heap[a]: the dict at address a
    delivered,                     \* the fragments handed to the observer
    heap_hist                      \* last operation on the objects

\* the hostname validator and RoombaDiscovery
discoveryVars == <<hostname, hostname_result, discovery_pc, broadcasts, robots,
                   received, last_decode>>

\* RoombaPassword
pwVars == <<pw_pc, pw_rest, raw_data, response_length, pw_reads, pw_result>>

\* the trees as objects with an identity
heapVars == <<heap, delivered, heap_hist>>

\* The objects beside the Roomba adapter, and the adapter's trees seen as
\* objects.  No action on the trees as values touches them.
toolVars == <<discoveryVars, pwVars, heapVars>>

\* what an action of the message path leaves alone
connVars == <<continuous, stop_connection, periodic_connection_running,
              roomba_connected, client_error, on_disconnect_callbacks,
              thread_pc, subscribed, was_connected, mqtt_loop, mqtt_session,
              conn, call, connect_calls, last_disc, last_cb, loop_hist,
              toolVars>>

\* what an action of the connection lifecycle leaves alone
msgVars == <<master_state, cleanMissionStatus_phase,
             previous_cleanMissionStatus_phase, current_state, bin_full,
             co_ords, error_code, error_message, on_message_callbacks,
             msg_hist, last_dispatch, last_payload, prev_merge,
             clock, self_time, toolVars>>

\* the Roomba adapter: what an action of the other objects leaves alone
roombaVars == <<continuous, stop_connection, periodic_connection_running,
                roomba_connected, client_error, on_disconnect_callbacks,
                thread_pc, subscribed, was_connected, mqtt_loop, mqtt_session,
                conn, call, connect_calls, last_disc, last_cb, loop_hist,
                master_state, cleanMissionStatus_phase,
                previous_cleanMissionStatus_phase, current_state, bin_full,
                co_ords, error_code, error_message, on_message_callbacks,
                msg_hist, last_dispatch, last_payload, prev_merge,
                clock, self_time>>

vars == <<roombaVars, toolVars>>

(***************************************************************************)
(* Bounds                                                                  *)
(***************************************************************************)
MaxConnectCalls == 2
MaxObservers == 2
MaxTicks == 5                      \* clock ticks followed by the timed runs
TickSeconds == 150                 \* seconds per clock tick

(***************************************************************************)
(* Constants of the program                                                *)
(***************************************************************************)
None == "None"
MAX_CONNECTION_RETRIES == 3
PERIODIC_LOST_CODE == 7
UnmappedCode == 99
topic == "#"

\* roombapy/const.py is not part of the sources at hand: the reason-code
\* table maps every nonzero code it knows to a Transport Error.
MQTT_ERROR_MESSAGES == (PERIODIC_LOST_CODE :> "The connection was lost")

ReasonCodes == {0, UnmappedCode} \cup DOMAIN MQTT_ERROR_MESSAGES

\* What the transport does in the attempts of one connect() call: it raises
\* until some attempt, from which on it does not.
Scripts ==
    {outs \in [1..MAX_CONNECTION_RETRIES -> {"ok", "raise"}] :
        \A i, j \in 1..MAX_CONNECTION_RETRIES :
            (i < j /\ outs[i] = "ok") => outs[j] = "ok"}
ObserverKinds == {"returns", "raises"}

(***************************************************************************)
(* RoombaRemoteClient                                                      *)
(***************************************************************************)

\* dict.get(reason_code): the table's entry, or None when there is none.
TableGet(reason_code) ==
    IF reason_code \in DOMAIN MQTT_ERROR_MESSAGES
    THEN MQTT_ERROR_MESSAGES[reason_code] ELSE None

Translate_raw(reason_code) ==
    LET connection_error == TableGet(reason_code) IN
    IF connection_error = None THEN ToString(reason_code) ELSE connection_error

\* _internal_on_connect / _internal_on_disconnect: the value handed to the
\* adapter's callback for a numeric reason code.
Translate(reason_code) ==
    LET connection_error == TableGet(reason_code) IN
    IF reason_code # 0 /\ connection_error = None
    THEN "UNKNOWN_ERROR" ELSE connection_error

open_mqtt_never_marks(st, out) ==
    IF out = "raise"
    THEN [st |-> [st EXCEPT !.sess = "down"],
          calls |-> <<"connect">>, raised |-> TRUE]
    ELSE [st |-> [was |-> FALSE, loop |-> TRUE, sess |-> "connack"],
          calls |-> <<"connect", "loop_start">>, raised |-> FALSE]

\* _open_mqtt_connection: one attempt.  st is the client state, out says
\* whether the transport's connect()/reconnect() raises in this attempt.
open_mqtt_connection(st, out) ==
    IF ~st.was
    THEN IF out = "raise"
         THEN [st |-> [st EXCEPT !.sess = "down"],
               calls |-> <<"connect">>, raised |-> TRUE]
         ELSE [st |-> [was |-> TRUE, loop |-> TRUE, sess |-> "connack"],
               calls |-> <<"connect", "loop_start">>, raised |-> FALSE]
    ELSE IF out = "raise"
         THEN [st |-> [st EXCEPT !.loop = FALSE, !.sess = "down"],
               calls |-> <<"loop_stop", "reconnect">>, raised |-> TRUE]
         ELSE [st |-> [st EXCEPT !.loop = TRUE, !.sess = "connack"],
               calls |-> <<"loop_stop", "reconnect", "loop_start">>,
               raised |-> FALSE]

RECURSIVE connect_loop(_, _, _, _, _)
connect_loop(attempt, last, st, outs, log) ==
    IF attempt <= last
    THEN LET r == open_mqtt_connection(st, outs[attempt]) IN
         IF r.raised
         THEN connect_loop(attempt + 1, last, r.st, outs, Append(log, r.calls))
         ELSE [ok |-> TRUE, st |-> r.st, log |-> Append(log, r.calls)]
    ELSE [ok |-> FALSE, st |-> st, log |-> log]

remote_connect_stops_early(st, outs) ==
    connect_loop(1, MAX_CONNECTION_RETRIES - 1, st, outs, << >>)

\* RoombaRemoteClient.connect: attempt = 1; while attempt <= 3: ...
remote_connect(st, outs) ==
    connect_loop(1, MAX_CONNECTION_RETRIES, st, outs, << >>)

\* RoombaRemoteClient.disconnect -> mqtt_client.disconnect()
mqtt_disconnect(sess) ==
    IF sess \in {"up", "connack"} THEN "closing" ELSE sess

ClientState == [was |-> was_connected, loop |-> mqtt_loop, sess |-> mqtt_session]

connect_swallows_failure(is_connected) == "returned"

\* Roomba._connect: raises RoombaConnectionError when remote_client.connect()
\* returned False
roomba_connect(is_connected) ==
    IF ~is_connected THEN "RoombaConnectionError" ELSE "returned"

loop_ignores_stop(stop) == TRUE

\* periodic_connection: while not self.stop_connection
LoopContinues(stop) == ~stop

(***************************************************************************)
(* Roomba: callbacks                                                       *)
(***************************************************************************)

\* for callback in callbacks: callback(error) -- the observers invoked, in
\* order, up to and including the first one that raises.
RECURSIVE Invoked(_, _)
Invoked(callbacks, i) ==
    IF i > Len(callbacks) THEN << >>
    ELSE IF callbacks[i] = "raises" THEN <<i>>
    ELSE <<i>> \o Invoked(callbacks, i + 1)

Escapes(callbacks) == \E i \in 1..Len(callbacks) : callbacks[i] = "raises"

\* Roomba.on_disconnect(error): the record of what it did.
on_disconnect(error) ==
    IF error # None
    THEN [error |-> error, invoked |-> Invoked(on_disconnect_callbacks, 1),
          escaped |-> Escapes(on_disconnect_callbacks),
          registered |-> Len(on_disconnect_callbacks)]
    ELSE [error |-> None, invoked |-> << >>, escaped |-> FALSE,
          registered |-> Len(on_disconnect_callbacks)]

(***************************************************************************)
(* JSON values and the keys of the fragments                               *)
(***************************************************************************)
Leaf(v) == [tag |-> "leaf", val |-> v]
Dict(f) == [tag |-> "dict", kv |-> f]
EmptyDict == << >>

\* A key as the sequence of its "_"-separated parts: joining keys with "_"
\* is concatenation of these sequences.
Segs(key) ==
    IF key = "cleanMissionStatus_phase" THEN <<"cleanMissionStatus", "phase">>
    ELSE <<key>>

\* str.replace("state_reported_", ""), left to right.
RECURSIVE StripReported(_)
StripReported(s) ==
    IF s = << >> THEN << >>
    ELSE IF Len(s) >= 3 /\ s[1] = "state" /\ s[2] = "reported"
         THEN StripReported(SubSeq(s, 3, Len(s)))
         ELSE <<s[1]>> \o StripReported(Tail(s))

\* A list that a leaf holds, as one opaque value: it equals no token and
\* cannot be hashed.
ListValue == "<list>"

\* what an unhashable phase makes of the table test
TypeError == "TypeError"

\* Python truth value of a scalar.
Truthy(v) == v \notin {"false", "0", "", None}

(***************************************************************************)
(* Tables of roombapy/const.py, which is not part of the sources at hand   *)
(***************************************************************************)

\* The phase tokens with a mission state; the state of a token is the enum
\* value of the same name.  update_state_machine indexes the table with
\* twelve of them.
KnownTokens == {"charge", "new", "run", "hmMidMsn", "dock", "recharge",
                "pause", "stop", "cancelled", "hmUsrDock", "hmPostMsn",
                "dockend", "stuck"}
ROOMBA_STATES == [t \in KnownTokens |-> t]

ROOMBA_ERROR_MESSAGES == ("0" :> "None") @@ ("15" :> "Reboot required")

\* Variants of the merge: an existing value wins over the fragment's; the
\* fragment replaces the tree; the fragment's top-level values replace the
\* tree's without recursion.
RECURSIVE dict_merge_keeps_old(_, _)
dict_merge_keeps_old(dct, merge_dct) ==
    [k \in DOMAIN dct \cup DOMAIN merge_dct |->
        IF k \in DOMAIN merge_dct
        THEN IF k \notin DOMAIN dct THEN merge_dct[k]
             ELSE IF dct[k].tag = "dict" /\ merge_dct[k].tag = "dict"
             THEN Dict(dict_merge_keeps_old(dct[k].kv, merge_dct[k].kv))
             ELSE dct[k]
        ELSE dct[k]]

dict_merge_fragment_only(dct, merge_dct) == merge_dct

dict_merge_shallow(dct, merge_dct) ==
    [k \in DOMAIN dct \cup DOMAIN merge_dct |->
        IF k \in DOMAIN merge_dct THEN merge_dct[k] ELSE dct[k]]

(***************************************************************************)
(* Roomba.dict_merge                                                       *)
(***************************************************************************)
RECURSIVE dict_merge(_, _)
dict_merge(dct, merge_dct) ==
    [k \in DOMAIN dct \cup DOMAIN merge_dct |->
        IF k \in DOMAIN merge_dct
        THEN IF /\ k \in DOMAIN dct
                /\ dct[k].tag = "dict"
                /\ merge_dct[k].tag = "dict"
             THEN Dict(dict_merge(dct[k].kv, merge_dct[k].kv))
             ELSE merge_dct[k]
        ELSE dct[k]]

(***************************************************************************)
(* Roomba.update_state_machine                                             *)
(***************************************************************************)

\* master_state["state"]["reported"]["cleanMissionStatus"]["mssnM"]: the
\* value, or the exception the subscripting raises.
RECURSIVE Subscript(_, _)
Subscript(value, path) ==
    IF path = << >> THEN value
    ELSE IF value.tag # "dict" THEN [tag |-> "TypeError"]
    ELSE IF Head(path) \notin DOMAIN value.kv THEN [tag |-> "KeyError"]
    ELSE Subscript(value.kv[Head(path)], Tail(path))

MssnM(master) == Subscript(Dict(master), <<"state", "reported", "cleanMissionStatus", "mssnM">>)

\* the first if, inside try/except KeyError
AfterCancelCheck(state, phase, master) ==
    LET m == MssnM(master) IN
    IF /\ m.tag = "leaf"
       /\ m.val = "none"
       /\ phase = "charge"
       /\ state \in {ROOMBA_STATES["pause"], ROOMBA_STATES["recharge"]}
    THEN ROOMBA_STATES["cancelled"]
    ELSE state

\* A variant that keeps the previous state on an unknown token.
PhaseState_keeps(state, phase) ==
    IF phase \notin DOMAIN ROOMBA_STATES THEN state ELSE ROOMBA_STATES[phase]

\* The last two arms of the chain: a token that is not in ROOMBA_STATES
\* gives the unknown state (None), any other token its mapped state.
PhaseState(state, phase) ==
    IF phase = ListValue THEN TypeError
    ELSE IF phase \notin DOMAIN ROOMBA_STATES THEN None
    ELSE ROOMBA_STATES[phase]

\* the if/elif chain; baseline is current_mission
Chain(state, phase, full, baseline) ==
    IF state = ROOMBA_STATES["charge"] /\ phase = "run"
    THEN [state |-> ROOMBA_STATES["new"], baseline |-> baseline]
    ELSE IF state = ROOMBA_STATES["run"] /\ phase = "hmMidMsn"
    THEN [state |-> ROOMBA_STATES["dock"], baseline |-> baseline]
    ELSE IF state = ROOMBA_STATES["dock"] /\ phase = "charge"
    THEN [state |-> ROOMBA_STATES["recharge"], baseline |-> baseline]
    ELSE IF state = ROOMBA_STATES["recharge"] /\ phase = "charge" /\ Truthy(full)
    THEN [state |-> ROOMBA_STATES["pause"], baseline |-> baseline]
    ELSE IF state = ROOMBA_STATES["run"] /\ phase = "charge"
    THEN [state |-> ROOMBA_STATES["recharge"], baseline |-> baseline]
    ELSE IF state = ROOMBA_STATES["recharge"] /\ phase = "run"
    THEN [state |-> ROOMBA_STATES["pause"], baseline |-> baseline]
    ELSE IF state = ROOMBA_STATES["pause"] /\ phase = "charge"
    THEN [state |-> ROOMBA_STATES["pause"], baseline |-> None]
    ELSE IF state = ROOMBA_STATES["charge"] /\ phase = "charge"
    THEN [state |-> state, baseline |-> None]
    ELSE IF /\ state \in {ROOMBA_STATES["stop"], ROOMBA_STATES["pause"]}
            /\ phase = "hmUsrDock"
    THEN [state |-> ROOMBA_STATES["cancelled"], baseline |-> baseline]
    ELSE IF \/ /\ state \in {ROOMBA_STATES["hmUsrDock"], ROOMBA_STATES["cancelled"]}
               /\ phase = "charge"
            \/ /\ state = ROOMBA_STATES["hmPostMsn"]
               /\ phase = "charge"
    THEN [state |-> ROOMBA_STATES["dockend"], baseline |-> baseline]
    ELSE IF state = ROOMBA_STATES["dockend"] /\ phase = "charge"
    THEN [state |-> ROOMBA_STATES["charge"], baseline |-> baseline]
    ELSE [state |-> PhaseState(state, phase), baseline |-> baseline]

\* A variant that drops the override.
update_state_machine_ignores_override(state, phase, full, master, new_state) ==
    IF MssnM(master).tag = "TypeError"
    THEN [state |-> state, baseline |-> state, raised |-> TRUE]
    ELSE LET c == Chain(AfterCancelCheck(state, phase, master), phase, full, state) IN
         [state |-> c.state, baseline |-> c.baseline, raised |-> FALSE]

\* update_state_machine(new_state): the new current_state, the comparison
\* baseline current_mission, and whether an exception escapes.
update_state_machine(state, phase, full, master, new_state) ==
    IF MssnM(master).tag = "TypeError"
    THEN [state |-> state, baseline |-> state, raised |-> TRUE]
    ELSE LET c == Chain(AfterCancelCheck(state, phase, master), phase, full, state) IN
         IF c.state = TypeError
         THEN [state |-> AfterCancelCheck(state, phase, master),
               baseline |-> c.baseline, raised |-> TRUE]
         ELSE [state |-> IF new_state # None THEN ROOMBA_STATES[new_state]
                         ELSE c.state,
               baseline |-> c.baseline, raised |-> FALSE]

(***************************************************************************)
(* Roomba.decode_topics                                                    *)
(***************************************************************************)

ErrorMessage(code) ==
    IF code \in DOMAIN ROOMBA_ERROR_MESSAGES
    THEN ROOMBA_ERROR_MESSAGES[code] ELSE "Unknown Error number"

\* if key == "cleanMissionStatus_phase": the test is on the dictionary key
\* of the leaf, not on the flattened mutable_key.
PhaseKeyMatches(key, mutable_key) ==
    Segs(key) = <<"cleanMissionStatus", "phase">>

\* A variant that stores the reported x as x and the reported y as y.
DecodeLeaf_unswapped(key, value, prefix, sig) ==
    LET mutable_key == StripReported(prefix \o Segs(key))
        s1 == IF mutable_key = <<"pose", "theta">>
              THEN [sig EXCEPT !.co_ords.theta = value] ELSE sig
        s2 == IF mutable_key = <<"pose", "point", "x">>
              THEN [s1 EXCEPT !.co_ords.x = value] ELSE s1
        s3 == IF mutable_key = <<"pose", "point", "y">>
              THEN [s2 EXCEPT !.co_ords.y = value] ELSE s2
        s4 == IF mutable_key = <<"bin", "full">>
              THEN [s3 EXCEPT !.bin_full = value] ELSE s3
        s5 == IF mutable_key = <<"cleanMissionStatus", "error">>
              THEN [s4 EXCEPT !.error_code = value,
                              !.error_message = ErrorMessage(value)]
              ELSE s4
    IN  IF PhaseKeyMatches(key, mutable_key)
        THEN [s5 EXCEPT !.previous = s5.phase, !.phase = value]
        ELSE s5

\* the body of the loop for a value that is not a dict; the table lookup
\* ROOMBA_ERROR_MESSAGES[mutable_value] raises TypeError on a list, which
\* except KeyError lets through
DecodeLeaf(key, value, prefix, sig) ==
    LET mutable_key == StripReported(prefix \o Segs(key))
        s1 == IF mutable_key = <<"pose", "theta">>
              THEN [sig EXCEPT !.co_ords.theta = value] ELSE sig
        s2 == IF mutable_key = <<"pose", "point", "x">>
              THEN [s1 EXCEPT !.co_ords.y = value] ELSE s1
        s3 == IF mutable_key = <<"pose", "point", "y">>
              THEN [s2 EXCEPT !.co_ords.x = value] ELSE s2
        s4 == IF mutable_key = <<"bin", "full">>
              THEN [s3 EXCEPT !.bin_full = value] ELSE s3
        s5 == IF mutable_key = <<"cleanMissionStatus", "error">>
              THEN IF value = ListValue
                   THEN [s4 EXCEPT !.error_code = value, !.raised = TRUE]
                   ELSE [s4 EXCEPT !.error_code = value,
                                   !.error_message = ErrorMessage(value)]
              ELSE s4
    IN  IF ~s5.raised /\ PhaseKeyMatches(key, mutable_key)
        THEN [s5 EXCEPT !.previous = s5.phase, !.phase = value]
        ELSE s5

\* mutable_value of a value that is no dict: a list is rebuilt as a list
mutable_value(value) == IF value.tag = "list" THEN ListValue ELSE value.val

\* for key, value in state.items(): ...   prefix << >> is prefix None.
RECURSIVE DecodeItems(_, _, _, _)
DecodeItems(keys, state, prefix, sig) ==
    CHOOSE result \in
        {IF keys = {} \/ s.raised THEN s
         ELSE LET key == CHOOSE k \in keys : TRUE
                  value == state[key]
              IN  DecodeItems(keys \ {key}, state, prefix,
                      IF value.tag = "dict"
                      THEN DecodeItems(DOMAIN value.kv, value.kv,
                                       prefix \o Segs(key), s)
                      ELSE DecodeLeaf(key, mutable_value(value), prefix, s))
         : s \in {sig}} : TRUE

\* decode_topics(state): the walk, then update_state_machine().  The result
\* holds the side channels and the new mission state.
decode_topics(state, sig, mission, master) ==
    CHOOSE result \in
        {IF s.raised THEN [sig |-> s, state |-> mission, raised |-> TRUE]
         ELSE LET u == update_state_machine(mission, s.phase, s.bin_full, master, None)
              IN  [sig |-> s, state |-> u.state, raised |-> u.raised]
         : s \in {DecodeItems(DOMAIN state, state, << >>, sig)}} : TRUE

(***************************************************************************)
(* Initial state: Roomba.__init__ and RoombaRemoteClient.__init__          *)
(***************************************************************************)

\* whether the full connection setup had completed before the call after conn
SetupDone ==
    conn.setup_done \/ \E i \in 1..Len(conn.log) : conn.log[i] = <<"connect", "loop_start">>

\* no datagram decoded yet
NoInfo == [hostname |-> "", firmware |-> "", ip |-> "", mac |-> "",
           robot_name |-> "", sku |-> ""]

\* RoombaDiscovery.__init__: nothing sent, nothing received
InitDiscovery ==
    /\ discovery_pc = "idle"
    /\ broadcasts = 0
    /\ robots = {}
    /\ received = {}
    /\ last_decode = [raw |-> << >>, absent |-> TRUE, info |-> NoInfo, raised |-> FALSE]

\* RoombaPassword.__init__: a socket, nothing exchanged
InitPassword ==
    /\ pw_pc = "idle"
    /\ pw_rest = << >>
    /\ raw_data = << >>
    /\ response_length = 35
    /\ pw_reads = << >>
    \* what get_password() has come to: nothing yet
    /\ pw_result = [kind |-> "pending", value |-> << >>, error |-> "none"]

\* self.master_state = {}: one dict, at address 1, and nothing delivered
InitHeap ==
    /\ heap = <<EmptyDict>>
    /\ delivered = << >>
    /\ heap_hist = [op |-> "none", tree |-> EmptyDict]

InitTools ==
    /\ hostname = << >>
    /\ hostname_result = "none"
    /\ InitDiscovery
    /\ InitPassword
    /\ InitHeap

InitConn ==
    /\ InitTools
    /\ continuous \in BOOLEAN
    /\ stop_connection = FALSE
    /\ periodic_connection_running = FALSE
    /\ roomba_connected = FALSE
    /\ client_error = None
    /\ on_disconnect_callbacks = << >>
    /\ thread_pc = "new"
    /\ subscribed = {}
    /\ was_connected = FALSE
    /\ mqtt_loop = FALSE
    /\ mqtt_session = "down"
    /\ conn = (
            [by |-> "none", ok |-> FALSE,
            outs |-> [i \in 1..MAX_CONNECTION_RETRIES |-> "ok"],
            log |-> << >>, setup_done |-> FALSE])
    /\ call = "none"
    /\ connect_calls = 0
    /\ last_disc = (
            [error |-> None, invoked |-> << >>, escaped |-> FALSE,
            registered |-> 0, synthetic |-> FALSE])
    /\ last_cb = [kind |-> "none", code |-> 0, forwarded |-> None,
                  subscribe |-> "none"]
    /\ loop_hist = (
            [exhausted |-> FALSE, seqs_after_stop |-> 0, disconnected |-> FALSE,
            ended_after_stop |-> FALSE, connect_after_end |-> FALSE])

\* twin of a message: where an adapter in the same state comes to that is
\* handed the same fragment with the interval in the other condition
NoTwin == [state |-> None, phase |-> "", previous |-> "", raised |-> FALSE]

NoMsg == [op |-> "none", fragment |-> EmptyDict, expired |-> FALSE,
          override |-> None, raised |-> FALSE, twin |-> NoTwin,
          pre |-> [state |-> None, phase |-> "", previous |-> "",
                   bin_full |-> "false", master |-> EmptyDict,
                   co_ords |-> [x |-> "0", y |-> "0", theta |-> "180"]]]

\* no dispatch yet: nothing invoked, nothing handed to an observer
NoDispatch == [invoked |-> << >>, escaped |-> FALSE, registered |-> 0,
               given |-> EmptyDict, master |-> EmptyDict, state |-> None,
               full_walk |-> FALSE]
NoMerge == [op |-> "none", fragment |-> EmptyDict, master |-> EmptyDict]

InitMsg ==
    /\ master_state = EmptyDict
    /\ cleanMissionStatus_phase = ""
    /\ previous_cleanMissionStatus_phase = ""
    /\ current_state = None
    /\ bin_full = "false"
    /\ co_ords = [x |-> "0", y |-> "0", theta |-> "180"]
    /\ error_code = None
    /\ error_message = None
    /\ on_message_callbacks = << >>
    /\ msg_hist = NoMsg
    /\ last_dispatch = NoDispatch
    /\ last_payload = << >>
    /\ prev_merge = NoMerge
    /\ clock = 0
    /\ self_time = 0

Init == InitConn /\ InitMsg

(***************************************************************************)
(* Roomba.connect / Roomba.disconnect, called by the application           *)
(***************************************************************************)

\* if self.roomba_connected or self.periodic_connection_running: return
ConnectNoop ==
    /\ connect_calls < MaxConnectCalls
    /\ roomba_connected \/ periodic_connection_running
    /\ connect_calls' = connect_calls + 1
    /\ call' = "noop"
    /\ UNCHANGED <<continuous, stop_connection, periodic_connection_running,
                   roomba_connected, client_error, on_disconnect_callbacks,
                   thread_pc, subscribed, was_connected, mqtt_loop,
                   mqtt_session, conn, last_disc, last_cb, loop_hist>>
    /\ UNCHANGED msgVars

\* continuous: self._connect(), which raises RoombaConnectionError when
\* remote_client.connect() returns False.
ConnectContinuous(outs) ==
    /\ connect_calls < MaxConnectCalls
    /\ ~(roomba_connected \/ periodic_connection_running)
    /\ continuous
    /\ LET r == remote_connect(ClientState, outs) IN
       /\ was_connected' = r.st.was
       /\ mqtt_loop' = r.st.loop
       /\ mqtt_session' = r.st.sess
       /\ conn' = [by |-> "connect", ok |-> r.ok, outs |-> outs, log |-> r.log,
                   setup_done |-> SetupDone]
       /\ call' = roomba_connect(r.ok)
    /\ connect_calls' = connect_calls + 1
    /\ UNCHANGED <<continuous, stop_connection, periodic_connection_running,
                   roomba_connected, client_error, on_disconnect_callbacks,
                   thread_pc, subscribed, last_disc, last_cb, loop_hist>>
    /\ UNCHANGED msgVars

\* A variant of ConnectPeriodic with a fresh Thread object for every start: a
\* finished loop is started again.
ConnectPeriodic_restarts ==
    /\ connect_calls < MaxConnectCalls
    /\ ~(roomba_connected \/ periodic_connection_running)
    /\ ~continuous
    /\ IF thread_pc \in {"new", "done"}
       THEN thread_pc' = "started" /\ call' = "started"
       ELSE thread_pc' = thread_pc /\ call' = "RuntimeError"
    /\ connect_calls' = connect_calls + 1
    /\ loop_hist' = [loop_hist EXCEPT !.connect_after_end = @ \/ thread_pc = "done"]
    /\ UNCHANGED <<continuous, stop_connection, periodic_connection_running,
                   roomba_connected, client_error, on_disconnect_callbacks,
                   subscribed, was_connected, mqtt_loop, mqtt_session, conn,
                   last_disc, last_cb>>
    /\ UNCHANGED msgVars

\* periodic: self._thread.daemon = True; self._thread.start().  The Thread
\* object is created once in __init__: on a thread that was already started
\* (running or finished) the statement raises RuntimeError.
\* loop_hist.connect_after_end records a call that came after the loop ended.
ConnectPeriodic ==
    /\ connect_calls < MaxConnectCalls
    /\ ~(roomba_connected \/ periodic_connection_running)
    /\ ~continuous
    /\ IF thread_pc = "new"
       THEN thread_pc' = "started" /\ call' = "started"
       ELSE thread_pc' = thread_pc /\ call' = "RuntimeError"
    /\ connect_calls' = connect_calls + 1
    /\ loop_hist' = [loop_hist EXCEPT !.connect_after_end = @ \/ thread_pc = "done"]
    /\ UNCHANGED <<continuous, stop_connection, periodic_connection_running,
                   roomba_connected, client_error, on_disconnect_callbacks,
                   subscribed, was_connected, mqtt_loop, mqtt_session, conn,
                   last_disc, last_cb>>
    /\ UNCHANGED msgVars

\* Roomba.disconnect
Disconnect ==
    /\ IF continuous
       THEN /\ mqtt_session' = mqtt_disconnect(mqtt_session)
            /\ UNCHANGED stop_connection
       ELSE /\ stop_connection' = TRUE
            /\ UNCHANGED mqtt_session
    /\ UNCHANGED <<continuous, periodic_connection_running, roomba_connected,
                   client_error, on_disconnect_callbacks, thread_pc, subscribed,
                   was_connected, mqtt_loop, conn, call, connect_calls,
                   last_disc, last_cb, loop_hist>>
    /\ UNCHANGED msgVars

\* Roomba.register_on_disconnect_callback
RegisterDisconnectCallback(kind) ==
    /\ Len(on_disconnect_callbacks) < MaxObservers
    /\ on_disconnect_callbacks' = Append(on_disconnect_callbacks, kind)
    /\ UNCHANGED <<continuous, stop_connection, periodic_connection_running,
                   roomba_connected, client_error, thread_pc, subscribed,
                   was_connected, mqtt_loop, mqtt_session, conn, call,
                   connect_calls, last_disc, last_cb, loop_hist>>
    /\ UNCHANGED msgVars

(***************************************************************************)
(* Roomba.periodic_connection, run by self._thread                         *)
(***************************************************************************)

\* if self.periodic_connection_running: return
\* self.periodic_connection_running = True
ThreadBegin ==
    /\ thread_pc = "started"
    /\ IF periodic_connection_running
       THEN thread_pc' = "done" /\ UNCHANGED periodic_connection_running
       ELSE thread_pc' = "check" /\ periodic_connection_running' = TRUE
    /\ UNCHANGED <<continuous, stop_connection, roomba_connected, client_error,
                   on_disconnect_callbacks, subscribed, was_connected,
                   mqtt_loop, mqtt_session, conn, call, connect_calls,
                   last_disc, last_cb, loop_hist>>
    /\ UNCHANGED msgVars

\* while not self.stop_connection:
ThreadCheck ==
    /\ thread_pc = "check"
    /\ thread_pc' = IF LoopContinues(stop_connection) THEN "connect" ELSE "exit"
    /\ UNCHANGED <<continuous, stop_connection, periodic_connection_running,
                   roomba_connected, client_error, on_disconnect_callbacks,
                   subscribed, was_connected, mqtt_loop, mqtt_session, conn,
                   call, connect_calls, last_disc, last_cb, loop_hist>>
    /\ UNCHANGED msgVars

\* try: self._connect()
\* except RoombaConnectionError: self.periodic_connection_running = False;
\*     self.on_disconnect(MQTT_ERROR_MESSAGES[7]); return
ThreadConnect(outs) ==
    /\ thread_pc = "connect"
    /\ LET r == remote_connect(ClientState, outs) IN
       /\ was_connected' = r.st.was
       /\ mqtt_loop' = r.st.loop
       /\ mqtt_session' = r.st.sess
       /\ conn' = [by |-> "thread", ok |-> r.ok, outs |-> outs, log |-> r.log,
                   setup_done |-> SetupDone]
       /\ loop_hist' = [loop_hist EXCEPT
              !.exhausted = ~r.ok,
              !.ended_after_stop = ~r.ok /\ stop_connection,
              !.seqs_after_stop = IF stop_connection /\ @ < 2 THEN @ + 1 ELSE @]
       /\ IF roomba_connect(r.ok) = "returned"
          THEN /\ thread_pc' = "sleep"
               /\ UNCHANGED <<periodic_connection_running, roomba_connected,
                              client_error, last_disc>>
          ELSE /\ thread_pc' = "done"
               /\ periodic_connection_running' = FALSE
               /\ roomba_connected' = FALSE
               /\ client_error' = MQTT_ERROR_MESSAGES[PERIODIC_LOST_CODE]
               /\ last_disc' = on_disconnect(MQTT_ERROR_MESSAGES[PERIODIC_LOST_CODE])
                                  @@ [synthetic |-> TRUE]
    /\ UNCHANGED <<continuous, stop_connection, on_disconnect_callbacks,
                   subscribed, call, connect_calls, last_cb>>
    /\ UNCHANGED msgVars

\* time.sleep(self.delay)
ThreadSleep ==
    /\ thread_pc = "sleep"
    /\ thread_pc' = "check"
    /\ UNCHANGED <<continuous, stop_connection, periodic_connection_running,
                   roomba_connected, client_error, on_disconnect_callbacks,
                   subscribed, was_connected, mqtt_loop, mqtt_session, conn,
                   call, connect_calls, last_disc, last_cb, loop_hist>>
    /\ UNCHANGED msgVars

\* self.remote_client.disconnect()
ThreadExit ==
    /\ thread_pc = "exit"
    /\ thread_pc' = "exit2"
    /\ mqtt_session' = mqtt_disconnect(mqtt_session)
    /\ loop_hist' = [loop_hist EXCEPT !.disconnected = TRUE]
    /\ UNCHANGED <<continuous, stop_connection, periodic_connection_running,
                   roomba_connected, client_error, on_disconnect_callbacks,
                   subscribed, was_connected, mqtt_loop, conn, call,
                   connect_calls, last_disc, last_cb>>
    /\ UNCHANGED msgVars

\* self.periodic_connection_running = False
ThreadEnd ==
    /\ thread_pc = "exit2"
    /\ thread_pc' = "done"
    /\ periodic_connection_running' = FALSE
    /\ loop_hist' = [loop_hist EXCEPT !.ended_after_stop = stop_connection]
    /\ UNCHANGED <<continuous, stop_connection, roomba_connected, client_error,
                   on_disconnect_callbacks, subscribed, was_connected,
                   mqtt_loop, mqtt_session, conn, call, connect_calls,
                   last_disc, last_cb>>
    /\ UNCHANGED msgVars

ThreadStep ==
    \/ ThreadBegin
    \/ ThreadCheck
    \/ \E outs \in Scripts : ThreadConnect(outs)
    \/ ThreadSleep
    \/ ThreadExit
    \/ ThreadEnd

(***************************************************************************)
(* Callbacks delivered by the pub/sub client's delivery loop               *)
(***************************************************************************)

\* A variant that subscribes on the first connection only.
DeliverConnect_subscribes_once(reason_code) ==
    /\ mqtt_loop
    /\ mqtt_session = "connack"
    /\ mqtt_session' = IF reason_code = 0 THEN "up" ELSE "down"
    /\ LET error == Translate(reason_code) IN
       /\ last_cb' = [kind |-> "connect", code |-> reason_code,
                      forwarded |-> error,
                      subscribe |-> IF error # None \/ topic \in subscribed THEN "none" ELSE topic]
       /\ client_error' = error
       /\ IF error # None
          THEN UNCHANGED <<roomba_connected, subscribed>>
          ELSE /\ roomba_connected' = TRUE
               /\ subscribed' = subscribed \cup {topic}
    /\ UNCHANGED <<continuous, stop_connection, periodic_connection_running,
                   on_disconnect_callbacks, thread_pc, was_connected, mqtt_loop,
                   conn, call, connect_calls, last_disc, loop_hist>>
    /\ UNCHANGED msgVars

\* _internal_on_connect(reason_code) -> Roomba.on_connect(error); subscribe
\* records the topic handed to remote_client.subscribe
DeliverConnect(reason_code) ==
    /\ mqtt_loop
    /\ mqtt_session = "connack"
    /\ mqtt_session' = IF reason_code = 0 THEN "up" ELSE "down"
    /\ LET error == Translate(reason_code) IN
       /\ last_cb' = [kind |-> "connect", code |-> reason_code,
                      forwarded |-> error,
                      subscribe |-> IF error # None THEN "none" ELSE topic]
       /\ client_error' = error
       /\ IF error # None
          THEN UNCHANGED <<roomba_connected, subscribed>>
          ELSE /\ roomba_connected' = TRUE
               /\ subscribed' = subscribed \cup {topic}
    /\ UNCHANGED <<continuous, stop_connection, periodic_connection_running,
                   on_disconnect_callbacks, thread_pc, was_connected, mqtt_loop,
                   conn, call, connect_calls, last_disc, loop_hist>>
    /\ UNCHANGED msgVars

\* _internal_on_disconnect(reason_code) -> Roomba.on_disconnect(error)
DeliverDisconnect(reason_code) ==
    /\ mqtt_loop
    /\ \/ mqtt_session = "up" /\ reason_code # 0
       \/ mqtt_session = "closing" /\ reason_code = 0
    /\ mqtt_session' = "down"
    /\ LET error == Translate(reason_code) IN
       /\ last_cb' = [kind |-> "disconnect", code |-> reason_code,
                      forwarded |-> error, subscribe |-> "none"]
       /\ roomba_connected' = FALSE
       /\ client_error' = error
       /\ last_disc' = on_disconnect(error) @@ [synthetic |-> FALSE]
    /\ UNCHANGED <<continuous, stop_connection, periodic_connection_running,
                   on_disconnect_callbacks, thread_pc, subscribed, was_connected,
                   mqtt_loop, conn, call, connect_calls, loop_hist>>
    /\ UNCHANGED msgVars

(***************************************************************************)
(* Specification of the connection lifecycle                               *)
(***************************************************************************)
Next ==
    \/ ConnectNoop
    \/ \E outs \in Scripts : ConnectContinuous(outs)
    \/ ConnectPeriodic
    \/ Disconnect
    \/ \E kind \in ObserverKinds : RegisterDisconnectCallback(kind)
    \/ ThreadBegin
    \/ ThreadCheck
    \/ \E outs \in Scripts : ThreadConnect(outs)
    \/ ThreadSleep
    \/ ThreadExit
    \/ ThreadEnd
    \/ \E reason_code \in ReasonCodes : DeliverConnect(reason_code)
    \/ \E reason_code \in ReasonCodes : DeliverDisconnect(reason_code)

Spec == Init /\ [][Next]_vars


(***************************************************************************)
(* The message path: Roomba.on_message                                     *)
(***************************************************************************)
Reported(f) == Dict([state |-> Dict([reported |-> Dict(f)])])

PhaseFragment(p) == Reported([cleanMissionStatus |-> Dict([phase |-> Leaf(p)])]).kv
BinFragment(b) == Reported([bin |-> Dict([full |-> Leaf(b)])]).kv
PoseFragment ==
    Reported([pose |-> Dict([theta |-> Leaf("90"),
                             point |-> Dict([x |-> Leaf("1"), y |-> Leaf("2")])])]).kv
ErrorFragment(e) == Reported([cleanMissionStatus |-> Dict([error |-> Leaf(e)])]).kv
FlatPhaseFragment(p) == ("cleanMissionStatus_phase" :> Leaf(p))

\* The lexical units of a payload.
Punct(c) == [t |-> "punct", v |-> c]
Str(s) == [t |-> "str", v |-> s]
Num(n) == [t |-> "num", v |-> n]
Byte(b) == [t |-> "byte", v |-> b]

\* The bytes a device sends for a tree: json text of the object.
RECURSIVE Encode(_)
RECURSIVE EncodeMembers(_, _)
RECURSIVE EncodeElements(_)
Encode(value) ==
    IF value.tag = "leaf" THEN <<Str(value.val)>>
    ELSE IF value.tag = "list"
    THEN <<Punct("[")>> \o EncodeElements(value.items) \o <<Punct("]")>>
    ELSE <<Punct("{")>> \o EncodeMembers(DOMAIN value.kv, value.kv) \o <<Punct("}")>>

EncodeMembers(keys, kv) ==
    IF keys = {} THEN << >>
    ELSE LET key == CHOOSE k \in keys : TRUE IN
         <<Str(key), Punct(":")>> \o Encode(kv[key])
             \o (IF keys = {key} THEN << >> ELSE <<Punct(",")>>)
             \o EncodeMembers(keys \ {key}, kv)

EncodeElements(items) ==
    IF items = << >> THEN << >>
    ELSE Encode(Head(items))
             \o (IF Len(items) = 1 THEN << >> ELSE <<Punct(",")>>)
             \o EncodeElements(Tail(items))

Pre == [state |-> current_state, phase |-> cleanMissionStatus_phase,
        previous |-> previous_cleanMissionStatus_phase,
        bin_full |-> bin_full, master |-> master_state, co_ords |-> co_ords]

\* The effect of on_message on the reconstructor, computed as the code does:
\* dict_merge, decode_topics(decoded_message) and, when the re-publish
\* interval has expired, decode_topics(self.master_state).
Apply(fragment, expired) ==
    LET merged == dict_merge(master_state, fragment)
        \* The side channels written by the walk.
        d1 == decode_topics(fragment, (
                [co_ords |-> co_ords, bin_full |-> bin_full,
                error_code |-> error_code, error_message |-> error_message,
                phase |-> cleanMissionStatus_phase,
                previous |-> previous_cleanMissionStatus_phase,
                raised |-> FALSE]), current_state, merged)
    IN  IF expired /\ ~d1.raised
        THEN decode_topics(merged, d1.sig, d1.state, merged) @@ [master |-> merged]
        ELSE d1 @@ [master |-> merged]

\* for callback in self.on_message_callbacks: callback(decoded_message),
\* reached when neither walk raised.  Each observer is handed the fragment;
\* master and state are the tree and the mission state it can read then.
dispatch_message(fragment, d, expired) ==
    IF d.raised
    THEN [NoDispatch EXCEPT !.registered = Len(on_message_callbacks)]
    ELSE [invoked |-> Invoked(on_message_callbacks, 1),
          escaped |-> Escapes(on_message_callbacks),
          registered |-> Len(on_message_callbacks),
          given |-> fragment, master |-> d.master, state |-> d.state,
          full_walk |-> expired]

\* on_message from the merge on, for the decoded message fragment; expired
\* says whether time.time() - self.time > self.update_seconds.
handle_message(fragment, expired) ==
    \E d \in {Apply(fragment, expired)}, t \in {Apply(fragment, ~expired)} :
        /\ master_state' = d.master
        /\ co_ords' = d.sig.co_ords
        /\ bin_full' = d.sig.bin_full
        /\ error_code' = d.sig.error_code
        /\ error_message' = d.sig.error_message
        /\ cleanMissionStatus_phase' = d.sig.phase
        /\ previous_cleanMissionStatus_phase' = d.sig.previous
        /\ current_state' = d.state
        /\ msg_hist' = [op |-> "message", fragment |-> fragment,
                        expired |-> expired, override |-> None,
                        raised |-> d.raised, pre |-> Pre,
                        twin |-> [state |-> t.state, phase |-> t.sig.phase,
                                  previous |-> t.sig.previous,
                                  raised |-> t.raised]]
        /\ last_dispatch' = dispatch_message(fragment, d, expired)
        /\ UNCHANGED <<on_message_callbacks, prev_merge>>
        /\ UNCHANGED connVars

\* on_message with the payload a device sends for fragment.  The clock is
\* not followed here: any time may pass between two messages, so whether the
\* interval has expired is the environment's choice.
OnMessage(fragment, expired) ==
    /\ handle_message(fragment, expired)
    /\ last_payload' = Encode(Dict(fragment))
    /\ UNCHANGED <<clock, self_time>>

\* the decoded payloads a device sends
NextMsg ==
    \E fragment \in
        {PhaseFragment("charge"), PhaseFragment("run"),
         Reported([cleanMissionStatus |->
                      Dict([phase |-> Leaf("charge"), mssnM |-> Leaf("none")])]).kv,
         BinFragment("true"), PoseFragment,
         ErrorFragment("15"), FlatPhaseFragment("charge"), FlatPhaseFragment("run"),
         EmptyDict},
       expired \in BOOLEAN : OnMessage(fragment, expired)

\* RoombaFactory.create_roomba: continuous defaults to True
InitMessages == Init /\ continuous

SpecMsg == InitMessages /\ [][NextMsg]_vars

(***************************************************************************)
(* Payloads: _decode_payload and the drop path of on_message               *)
(*                                                                         *)
(* A raw payload is a sequence of lexical units: punctuation, a string, a  *)
(* number, or a byte that belongs to no JSON token ("00" is the NUL byte,  *)
(* valid UTF-8; "ff" is a byte that no UTF-8 text contains).               *)
(***************************************************************************)
List(items) == [tag |-> "list", items |-> items]
ParseFail == [ok |-> FALSE, val |-> Leaf(""), rest |-> << >>]

\* orjson.loads: recursive descent over value, object members and array
\* elements; a repeated key keeps its last value.
RECURSIVE ParseValue(_)
RECURSIVE ParseMembers(_, _)
RECURSIVE ParseElements(_, _)
ParseValue(ts) ==
    IF ts = << >> THEN ParseFail
    ELSE IF Head(ts).t \in {"str", "num"}
    THEN [ok |-> TRUE, val |-> Leaf(Head(ts).v), rest |-> Tail(ts)]
    ELSE IF Head(ts) = Punct("{")
    THEN IF Len(ts) >= 2 /\ ts[2] = Punct("}")
         THEN [ok |-> TRUE, val |-> Dict(EmptyDict), rest |-> Tail(Tail(ts))]
         ELSE ParseMembers(Tail(ts), EmptyDict)
    ELSE IF Head(ts) = Punct("[")
    THEN IF Len(ts) >= 2 /\ ts[2] = Punct("]")
         THEN [ok |-> TRUE, val |-> List(<< >>), rest |-> Tail(Tail(ts))]
         ELSE ParseElements(Tail(ts), << >>)
    ELSE ParseFail

ParseMembers(ts, acc) ==
    IF Len(ts) < 3 \/ ts[1].t # "str" \/ ts[2] # Punct(":") THEN ParseFail
    ELSE LET v == ParseValue(Tail(Tail(ts)))
             acc2 == (ts[1].v :> v.val) @@ acc
         IN  IF ~v.ok \/ v.rest = << >> THEN ParseFail
             ELSE IF Head(v.rest) = Punct("}")
             THEN [ok |-> TRUE, val |-> Dict(acc2), rest |-> Tail(v.rest)]
             ELSE IF Head(v.rest) = Punct(",")
             THEN ParseMembers(Tail(v.rest), acc2)
             ELSE ParseFail

ParseElements(ts, acc) ==
    LET v == ParseValue(ts) IN
    IF ~v.ok \/ v.rest = << >> THEN ParseFail
    ELSE IF Head(v.rest) = Punct("]")
    THEN [ok |-> TRUE, val |-> List(Append(acc, v.val)), rest |-> Tail(v.rest)]
    ELSE IF Head(v.rest) = Punct(",")
    THEN ParseElements(Tail(v.rest), Append(acc, v.val))
    ELSE ParseFail

\* raw_payload.decode(): UnicodeDecodeError on a byte outside UTF-8
Utf8Decodes(raw_payload) ==
    \A i \in 1..Len(raw_payload) : raw_payload[i] # Byte("ff")

\* orjson.loads(payload): one value and nothing after it
Loads(payload) ==
    LET r == ParseValue(payload) IN
    IF r.ok /\ r.rest = << >> THEN r ELSE ParseFail

\* A variant that lets every JSON value through.
decode_payload_any_json(raw_payload) ==
    IF ~Utf8Decodes(raw_payload) \/ ~Loads(raw_payload).ok
    THEN [none |-> TRUE, message |-> EmptyDict]
    ELSE IF Loads(raw_payload).val.tag # "dict"
    THEN [none |-> FALSE, message |-> EmptyDict]
    ELSE [none |-> FALSE, message |-> Loads(raw_payload).val.kv]

\* _decode_payload(raw_payload): none stands for the result None
decode_payload(raw_payload) ==
    IF ~Utf8Decodes(raw_payload) \/ ~Loads(raw_payload).ok
    THEN [none |-> TRUE, message |-> EmptyDict]
    ELSE IF Loads(raw_payload).val.tag # "dict"
    THEN [none |-> TRUE, message |-> EmptyDict]
    ELSE [none |-> FALSE, message |-> Loads(raw_payload).val.kv]

ObjectFragments == {EmptyDict, FlatPhaseFragment("run"), BinFragment("true")}
ObjectPayloads == {Encode(Dict(f)) : f \in ObjectFragments}
MalformedPayloads ==
    {<<Byte("00")>>, <<Byte("ff")>>, <<Punct("{"), Str("bin"), Byte("ff")>>,
     <<Punct("[")>>, <<Punct("{")>>, <<Punct("{"), Str("bin"), Punct(":"), Str("true")>>,
     <<Punct("["), Punct("]")>>, <<Num("12")>>, <<Str("run")>>,
     <<Punct("["), Punct("{"), Punct("}"), Punct("]")>>}
Payloads == ObjectPayloads \cup MalformedPayloads

\* register_on_message_callback(callback)
RegisterMessageCallback(kind) ==
    /\ Len(on_message_callbacks) < MaxObservers
    /\ on_message_callbacks' = Append(on_message_callbacks, kind)
    /\ UNCHANGED <<master_state, cleanMissionStatus_phase,
                   previous_cleanMissionStatus_phase, current_state, bin_full,
                   co_ords, error_code, error_message, msg_hist,
                   last_dispatch, last_payload, prev_merge,
                   clock, self_time>>
    /\ UNCHANGED connVars

\* on_message(msg) for msg.payload = raw_payload: a payload that
\* _decode_payload turns into None is logged and dropped, any other is
\* merged, decoded and dispatched.
OnPayload(raw_payload, expired) ==
    \E m \in {decode_payload(raw_payload)} :
        IF m.none
        THEN /\ msg_hist' = [NoMsg EXCEPT !.op = "dropped", !.pre = Pre]
             /\ last_dispatch' =
                    [NoDispatch EXCEPT !.registered = Len(on_message_callbacks)]
             /\ UNCHANGED <<master_state, cleanMissionStatus_phase,
                            previous_cleanMissionStatus_phase, current_state,
                            bin_full, co_ords, error_code, error_message,
                            on_message_callbacks, prev_merge, clock, self_time>>
             /\ last_payload' = raw_payload
             /\ UNCHANGED connVars
        ELSE /\ handle_message(m.message, expired)
             /\ last_payload' = raw_payload
             /\ UNCHANGED <<clock, self_time>>

NextPayload ==
    \/ \E kind \in ObserverKinds : RegisterMessageCallback(kind)
    \/ \E raw_payload \in Payloads, expired \in BOOLEAN :
           OnPayload(raw_payload, expired)

SpecPayload == InitMessages /\ [][NextPayload]_vars

(***************************************************************************)
(* The message path for JSON objects with values of any type              *)
(***************************************************************************)

TypedPayloads == {Encode(Dict(f)) : f \in (
        \* objects that a device does not send but a payload may hold: a scalar or
        \* a list where a mapping is expected, a list where a scalar is expected
        (
                {("state" :> Leaf("5")),
                 ("state" :> List(<< >>)),
                 ("state" :> Dict([reported |-> Leaf("5")])),
                 Reported([cleanMissionStatus |-> Leaf("5")]).kv,
                 Reported([cleanMissionStatus |-> Dict([error |-> List(<<Leaf("1")>>)])]).kv,
                 Reported([cleanMissionStatus |-> Dict([phase |-> List(<<Leaf("run")>>)])]).kv,
                 ("cleanMissionStatus_phase" :> List(<<Leaf("run")>>)),
                 ("bin" :> List(<<Leaf("1"), Dict([a |-> Leaf("2")])>>))})
            \cup {BinFragment("true"), PhaseFragment("run"), ErrorFragment("15"),
                  FlatPhaseFragment("charge"), EmptyDict})}

NextTyped ==
    \E raw_payload \in TypedPayloads, expired \in BOOLEAN :
        OnPayload(raw_payload, expired)

SpecTyped == InitMessages /\ [][NextTyped]_vars

(***************************************************************************)
(* The message path with the clock: the re-publish interval                *)
(***************************************************************************)
update_seconds == 300

\* time.time() - self.time > self.update_seconds
Expired == clock - self_time > update_seconds

\* time passes between two callbacks
Tick ==
    /\ clock + TickSeconds <= MaxTicks * TickSeconds
    /\ clock' = clock + TickSeconds
    /\ UNCHANGED <<master_state, cleanMissionStatus_phase,
                   previous_cleanMissionStatus_phase, current_state, bin_full,
                   co_ords, error_code, error_message, on_message_callbacks,
                   msg_hist, last_dispatch, last_payload, prev_merge, self_time>>
    /\ UNCHANGED connVars

\* on_message at time clock: when the interval has expired the handler walks
\* the whole tree and sets self.time = time.time().
OnTimedMessage(fragment) ==
    /\ handle_message(fragment, Expired)
    /\ last_payload' = Encode(Dict(fragment))
    /\ self_time' = IF Expired /\ ~Apply(fragment, Expired).raised
                    THEN clock ELSE self_time
    /\ UNCHANGED clock

NextTimer ==
    \/ Tick
    \/ \E kind \in ObserverKinds : RegisterMessageCallback(kind)
    \/ \E fragment \in (
            {BinFragment("true"), PoseFragment, FlatPhaseFragment("charge")}) : OnTimedMessage(fragment)

SpecTimer == InitMessages /\ [][NextTimer]_vars

(***************************************************************************)
(* dict_merge on its own: trees and fragments over a small key set         *)
(***************************************************************************)
MergeTrees ==
    {EmptyDict,
     [a |-> Leaf("1")],
     [a |-> Leaf("2")],
     [a |-> Dict([x |-> Leaf("1")])],
     [a |-> Dict([y |-> Leaf("2")])],
     [a |-> Dict([x |-> Leaf("2")])],
     [b |-> Leaf("1")],
     [a |-> Dict([x |-> Dict([y |-> Leaf("1")])])],
     [a |-> Dict(EmptyDict), b |-> Dict([x |-> Leaf("1")])]}

InitMerge ==
    /\ InitConn
    /\ continuous
    /\ master_state \in MergeTrees
    /\ cleanMissionStatus_phase = ""
    /\ previous_cleanMissionStatus_phase = ""
    /\ current_state = None
    /\ bin_full = "false"
    /\ co_ords = [x |-> "0", y |-> "0", theta |-> "180"]
    /\ error_code = None
    /\ error_message = None
    /\ on_message_callbacks = << >>
    /\ msg_hist = NoMsg
    /\ last_dispatch = NoDispatch
    /\ last_payload = << >>
    /\ prev_merge = NoMerge
    /\ clock = 0
    /\ self_time = 0

\* A variant that merges the tree into the fragment.
DictMerge_swapped(fragment) ==
    /\ master_state' = dict_merge(fragment, master_state)
    /\ msg_hist' = [NoMsg EXCEPT !.op = "merge", !.fragment = fragment,
                                 !.pre = Pre]
    /\ prev_merge' = [op |-> msg_hist.op, fragment |-> msg_hist.fragment,
                      master |-> msg_hist.pre.master]
    /\ UNCHANGED <<cleanMissionStatus_phase, previous_cleanMissionStatus_phase,
                   current_state, bin_full, co_ords, error_code, error_message,
                   on_message_callbacks, last_dispatch, last_payload,
                   clock, self_time>>
    /\ UNCHANGED connVars

\* self.dict_merge(self.master_state, fragment)
DictMerge(fragment) ==
    /\ master_state' = dict_merge(master_state, fragment)
    /\ msg_hist' = [NoMsg EXCEPT !.op = "merge", !.fragment = fragment,
                                 !.pre = Pre]
    /\ prev_merge' = [op |-> msg_hist.op, fragment |-> msg_hist.fragment,
                      master |-> msg_hist.pre.master]
    /\ UNCHANGED <<cleanMissionStatus_phase, previous_cleanMissionStatus_phase,
                   current_state, bin_full, co_ords, error_code, error_message,
                   on_message_callbacks, last_dispatch, last_payload,
                   clock, self_time>>
    /\ UNCHANGED connVars

NextMerge == \E fragment \in MergeTrees : DictMerge(fragment)

SpecMerge == InitMerge /\ [][NextMerge]_vars

(***************************************************************************)
(* The mission state machine on its own: update_state_machine applied to   *)
(* every combination of mission state, raw phase, bin-full flag and tree.  *)
(***************************************************************************)

InitSM ==
    /\ InitConn
    /\ continuous
    /\ master_state \in (
            {EmptyDict,
             Reported(EmptyDict).kv,
             Reported([cleanMissionStatus |-> Dict([mssnM |-> Leaf("none")])]).kv,
             Reported([cleanMissionStatus |-> Dict([mssnM |-> Leaf("108")])]).kv})
    /\ cleanMissionStatus_phase \in (KnownTokens \cup {"", "evac2"})
    /\ previous_cleanMissionStatus_phase = ""
    /\ current_state \in ({ROOMBA_STATES[t] : t \in KnownTokens} \cup {None})
    /\ bin_full \in {"false", "true"}
    /\ co_ords = [x |-> "0", y |-> "0", theta |-> "180"]
    /\ error_code = None
    /\ error_message = None
    /\ on_message_callbacks = << >>
    /\ msg_hist = NoMsg
    /\ last_dispatch = NoDispatch
    /\ last_payload = << >>
    /\ prev_merge = NoMerge
    /\ clock = 0
    /\ self_time = 0

UpdateStateMachine(new_state) ==
    LET u == update_state_machine(current_state, cleanMissionStatus_phase,
                                  bin_full, master_state, new_state)
    IN  /\ current_state' = u.state
        /\ msg_hist' = [op |-> "usm", fragment |-> EmptyDict, expired |-> FALSE,
                        override |-> new_state, raised |-> u.raised, pre |-> Pre,
                        twin |-> NoTwin]
        /\ UNCHANGED <<master_state, cleanMissionStatus_phase,
                       previous_cleanMissionStatus_phase, bin_full, co_ords,
                       error_code, error_message, on_message_callbacks,
                       last_dispatch, last_payload, prev_merge,
                   clock, self_time>>
        /\ UNCHANGED connVars

NextSM == \E new_state \in {None, "stop"} : UpdateStateMachine(new_state)

SpecSM == InitSM /\ [][NextSM]_vars

(***************************************************************************)
(* The periodic mode on its own, with a fair scheduler                     *)
(***************************************************************************)

InitPeriodic == Init /\ ~continuous

NextPeriodic ==
    \/ ConnectNoop
    \/ ConnectPeriodic
    \/ Disconnect
    \/ \E kind \in ObserverKinds : RegisterDisconnectCallback(kind)
    \/ ThreadBegin
    \/ ThreadCheck
    \/ \E outs \in Scripts : ThreadConnect(outs)
    \/ ThreadSleep
    \/ ThreadExit
    \/ ThreadEnd
    \/ \E reason_code \in ReasonCodes : DeliverConnect(reason_code)
    \/ \E reason_code \in ReasonCodes : DeliverDisconnect(reason_code)

\* A started thread is scheduled: every enabled step of periodic_connection
\* is eventually taken.
FairPeriodic == InitPeriodic /\ [][NextPeriodic]_vars /\ WF_vars(ThreadStep)

(***************************************************************************)
(* RoombaInfo: the hostname validator, blid, __eq__ and __hash__           *)
(*                                                                         *)
(* A hostname is a sequence of pieces: the dash "-" or a run of characters *)
(* without a dash.                                                         *)
(***************************************************************************)
MaxHostnamePieces == 5
MaxRead == 15                      \* most bytes one recv returns
MaxMessages == 3                   \* messages whose fragments are followed

RECURSIVE SeqsUpTo(_, _)
SeqsUpTo(alphabet, n) ==
    IF n = 0 THEN {<< >>}
    ELSE LET shorter == SeqsUpTo(alphabet, n - 1) IN
         shorter \cup {Append(q, c) : q \in shorter, c \in alphabet}

Hostnames == SeqsUpTo({"-", "Roomba", "iRobot", "ROOMBA", "Rumba", "XYZ"}, MaxHostnamePieces)

\* value.split("-"): the parts between the dashes, empty parts included
RECURSIVE Split(_, _, _)
Split(value, i, part) ==
    IF i > Len(value) THEN <<part>>
    ELSE IF value[i] = "-" THEN <<part>> \o Split(value, i + 1, << >>)
    ELSE Split(value, i + 1, Append(part, value[i]))

\* str.lower() of a piece
LowerPiece(piece) ==
    IF piece \in {"Roomba", "ROOMBA"} THEN "roomba"
    ELSE IF piece = "iRobot" THEN "irobot"
    ELSE IF piece = "Rumba" THEN "rumba"
    ELSE IF piece = "XYZ" THEN "xyz"
    ELSE piece

Lower(part) == [i \in 1..Len(part) |-> LowerPiece(part[i])]

\* RoombaInfo.hostname_validator(value): "ok" when value is returned, the
\* ValueError otherwise.  model_name, blid = value.split("-") raises
\* ValueError itself unless there are exactly two parts.
hostname_validator(value) ==
    IF \A i \in 1..Len(value) : value[i] # "-"
    THEN "ValueError: hostname does not contain a dash"
    ELSE IF Len(Split(value, 1, << >>)) # 2
    THEN "ValueError: too many values to unpack"
    ELSE IF Split(value, 1, << >>)[2] = << >>
    THEN "ValueError: empty blid"
    ELSE IF Lower(Split(value, 1, << >>)[1]) \notin {<<"roomba">>, <<"irobot">>}
    THEN "ValueError: unsupported model in hostname"
    ELSE "ok"

\* RoombaInfo.blid: self.hostname.split("-")[1]
blid(value) == Split(value, 1, << >>)[2]

\* RoombaInfo.__eq__ between two descriptors, and __hash__
InfoEq_all_fields(self, o) == self = o

InfoEq(self, o) == self.mac = o.mac

InfoHash(self) == self.mac

\* the validator applied to the hostname of a descriptor, once for each
\* descriptor that is built
ValidateHostname(value) ==
    /\ hostname_result = "none"
    /\ hostname' = value
    /\ hostname_result' = hostname_validator(value)
    /\ UNCHANGED <<discovery_pc, broadcasts, robots, received, last_decode>>
    /\ UNCHANGED pwVars
    /\ UNCHANGED heapVars
    /\ UNCHANGED roombaVars

NextHostname == \E value \in Hostnames : ValidateHostname(value)

SpecHostname == InitMessages /\ [][NextHostname]_vars

(***************************************************************************)
(* RoombaDiscovery: _decode_data and get_all                               *)
(***************************************************************************)
roomba_message == "irobotmcs"
amount_of_broadcasted_messages == 5

\* text that is no JSON token, such as the probe itself
Word(w) == [t |-> "word", v |-> w]

\* the characters of the hostnames that datagrams carry
HostnameText ==
    ("Roomba-test" :> <<"Roomba", "-", "XYZ">>)
        @@ ("iRobot-test" :> <<"iRobot", "-", "XYZ">>)
        @@ ("iRobot-" :> <<"iRobot", "-">>)
        @@ ("Rumba-test" :> <<"Rumba", "-", "XYZ">>)
        @@ ("hostname_placeholder" :> <<"XYZ">>)

RequiredFields == {"hostname", "sw", "ip", "mac", "robotname", "sku", "cap"}

\* RoombaInfo.from_json(data): the error it raises, or the descriptor
from_json(data) ==
    LET r == Loads(data) IN
    IF ~r.ok THEN [err |-> "JSONDecodeError", info |-> NoInfo]
    ELSE IF r.val.tag # "dict" THEN [err |-> "ValueError", info |-> NoInfo]
    ELSE IF ~(RequiredFields \subseteq DOMAIN r.val.kv)
    THEN [err |-> "MissingField", info |-> NoInfo]
    ELSE IF \E f \in RequiredFields \ {"cap"} : r.val.kv[f].tag # "leaf"
    THEN [err |-> "InvalidFieldValue", info |-> NoInfo]
    ELSE [err |-> "none",
          info |-> [hostname |-> r.val.kv["hostname"].val,
                    firmware |-> r.val.kv["sw"].val,
                    ip |-> r.val.kv["ip"].val,
                    mac |-> r.val.kv["mac"].val,
                    robot_name |-> r.val.kv["robotname"].val,
                    sku |-> r.val.kv["sku"].val]]

\* validate_hostname(hostname)
validate_hostname(value) == hostname_validator(HostnameText[value])

Absent(raw_response) ==
    [raw |-> raw_response, absent |-> TRUE, info |-> NoInfo, raised |-> FALSE]

\* what an exception raised inside the try block comes to
Except(raw_response, err) ==
    \* the exceptions that the except clauses of _decode_data name
    IF err \in (
            {"JSONDecodeError", "MissingField", "UnserializableDataError",
             "InvalidFieldValue", "MissingDiscriminatorError",
             "SuitableVariantNotFoundError", "ValueError"}) THEN Absent(raw_response)
    ELSE [raw |-> raw_response, absent |-> FALSE, info |-> NoInfo,
          raised |-> TRUE]

ErrorName(result) == IF result = "ok" THEN "none" ELSE "ValueError"

\* A variant that does not validate the hostname.
decode_data_any_hostname(raw_response) ==
    IF ~Utf8Decodes(raw_response) THEN Absent(raw_response)
    ELSE IF raw_response = <<Word(roomba_message)>> THEN Absent(raw_response)
    ELSE IF from_json(raw_response).err # "none"
    THEN Except(raw_response, from_json(raw_response).err)
    ELSE [raw |-> raw_response, absent |-> FALSE,
          info |-> from_json(raw_response).info, raised |-> FALSE]

\* _decode_data(raw_response): None (absent) or the descriptor
decode_data(raw_response) ==
    IF ~Utf8Decodes(raw_response) THEN Absent(raw_response)
    ELSE IF raw_response = <<Word(roomba_message)>> THEN Absent(raw_response)
    ELSE IF from_json(raw_response).err # "none"
    THEN Except(raw_response, from_json(raw_response).err)
    ELSE IF validate_hostname(from_json(raw_response).info.hostname) # "ok"
    THEN Except(raw_response,
                ErrorName(validate_hostname(from_json(raw_response).info.hostname)))
    ELSE [raw |-> raw_response, absent |-> FALSE,
          info |-> from_json(raw_response).info, raised |-> FALSE]

\* the datagram a robot answers with
Descriptor(name, mac, ip) ==
    Encode(Dict([hostname |-> Leaf(name), sw |-> Leaf("1.2.3"), ip |-> Leaf(ip),
                 mac |-> Leaf(mac), robotname |-> Leaf("test"),
                 sku |-> Leaf("123"), cap |-> Dict(EmptyDict)]))

ValidDatagrams ==
    {Descriptor("Roomba-test", "aa:bb", "192.168.0.2"),
     Descriptor("iRobot-test", "aa:bb", "192.168.0.3"),
     Descriptor("Roomba-test", "cc:dd", "192.168.0.2")}

InvalidDatagrams ==
    {<<Byte("0f"), Byte("00"), Byte("ff"), Byte("f0")>>,
     <<Punct("{"), Str("test"), Punct(":"), Num("1")>>,
     <<Punct("{"), Str("test"), Punct(":"), Num("1"), Punct("}")>>,
     <<Punct("["), Punct("]")>>,
     Encode(Dict([hostname |-> Leaf("Roomba-test")])),
     Descriptor("hostname_placeholder", "aa:bb", "192.168.0.2"),
     Descriptor("iRobot-", "aa:bb", "192.168.0.2"),
     Descriptor("Rumba-test", "ee:ff", "192.168.0.4")}

SelfEcho == <<Word(roomba_message)>>

Datagrams == ValidDatagrams \cup InvalidDatagrams \cup {SelfEcho}

\* get_all(): _start_server(), then the first sendto of _broadcast_message
GetAll ==
    /\ discovery_pc = "idle"
    /\ discovery_pc' = "broadcast"
    /\ UNCHANGED <<hostname, hostname_result, broadcasts, robots, received,
                   last_decode>>
    /\ UNCHANGED pwVars
    /\ UNCHANGED heapVars
    /\ UNCHANGED roombaVars

\* for i in range(amount): self.server_socket.sendto(...)
Broadcast ==
    /\ discovery_pc = "broadcast"
    /\ broadcasts' = broadcasts + 1
    /\ discovery_pc' = IF broadcasts + 1 = amount_of_broadcasted_messages
                       THEN "collect" ELSE "broadcast"
    /\ UNCHANGED <<hostname, hostname_result, robots, received, last_decode>>
    /\ UNCHANGED pwVars
    /\ UNCHANGED heapVars
    /\ UNCHANGED roombaVars

\* A variant that adds whatever the decoding gave, nothing included.
Receive_adds_undecoded(raw_response) ==
    /\ discovery_pc = "collect"
    /\ \E d \in {decode_data(raw_response)} :
          /\ last_decode' = d
          /\ robots' = IF \E r \in robots : InfoEq(r, d.info)
                       THEN robots ELSE robots \cup {d.info}
    /\ received' = received \cup {raw_response}
    /\ UNCHANGED <<hostname, hostname_result, discovery_pc, broadcasts>>
    /\ UNCHANGED pwVars
    /\ UNCHANGED heapVars
    /\ UNCHANGED roombaVars

\* recvfrom returns raw_response inside _get_response: a datagram that
\* decodes to nothing is skipped, any other is added to robots (a set keeps
\* the element it already holds when an equal one is added).
Receive(raw_response) ==
    /\ discovery_pc = "collect"
    /\ \E d \in {decode_data(raw_response)} :
          /\ last_decode' = d
          /\ robots' = IF d.absent \/ d.raised
                          \/ \E r \in robots : InfoEq(r, d.info)
                       THEN robots ELSE robots \cup {d.info}
    /\ received' = received \cup {raw_response}
    /\ UNCHANGED <<hostname, hostname_result, discovery_pc, broadcasts>>
    /\ UNCHANGED pwVars
    /\ UNCHANGED heapVars
    /\ UNCHANGED roombaVars

\* recvfrom raises socket.timeout: _get_response returns None and get_all
\* returns robots
ReceiveTimeout ==
    /\ discovery_pc = "collect"
    /\ discovery_pc' = "returned"
    /\ UNCHANGED <<hostname, hostname_result, broadcasts, robots, received,
                   last_decode>>
    /\ UNCHANGED pwVars
    /\ UNCHANGED heapVars
    /\ UNCHANGED roombaVars

NextDiscovery ==
    \/ GetAll
    \/ Broadcast
    \/ \E raw_response \in Datagrams : Receive(raw_response)
    \/ ReceiveTimeout

SpecDiscovery == InitMessages /\ [][NextDiscovery]_vars

(***************************************************************************)
(* RoombaPassword: get_password                                            *)
(*                                                                         *)
(* A byte is its value 0..255; a character of the credential is the value  *)
(* of its byte.                                                            *)
(***************************************************************************)
UNSUPPORTED_MAGIC == <<240, 5, 239, 204, 59, 41, 3>>

\* str.rstrip("\x00")
RECURSIVE RStrip(_)
RStrip(text) ==
    IF text # << >> /\ text[Len(text)] = 0
    THEN RStrip(SubSeq(text, 1, Len(text) - 1))
    ELSE text

\* bytes.decode(): of the bytes that occur here those above 127 are never
\* followed by a continuation byte, so they raise UnicodeDecodeError
Decodes(data) == \A i \in 1..Len(data) : data[i] < 128

\* A variant that keeps the padding.
decode_password_keeps_padding(data) ==
    IF Decodes(SubSeq(data, 8, Len(data)))
    THEN [kind |-> "str", value |-> SubSeq(data, 8, Len(data)),
          error |-> "none"]
    ELSE [kind |-> "raised", value |-> << >>, error |-> "UnicodeDecodeError"]

\* _decode_password(data): str(data[7:].decode().rstrip("\x00"))
decode_password(data) ==
    IF Decodes(SubSeq(data, 8, Len(data)))
    THEN [kind |-> "str", value |-> RStrip(SubSeq(data, 8, Len(data))),
          error |-> "none"]
    ELSE [kind |-> "raised", value |-> << >>, error |-> "UnicodeDecodeError"]

ReturnsNone == [kind |-> "None", value |-> << >>, error |-> "none"]
\* None returned after the error has been logged
Logged(err) == [kind |-> "None", value |-> << >>, error |-> err]
Raises(err) == [kind |-> "raised", value |-> << >>, error |-> err]

\* get_password(): self._connect().  Only ConnectionRefusedError is caught.
GetPassword(outcome) ==
    /\ pw_pc = "idle"
    /\ pw_pc' = IF outcome = "ok" THEN "connected"
                ELSE IF outcome = "ConnectionRefusedError" THEN "returned"
                ELSE "raised"
    /\ pw_result' = IF outcome = "ok" THEN pw_result
                    ELSE IF outcome = "ConnectionRefusedError" THEN ReturnsNone
                    ELSE Raises(outcome)
    /\ UNCHANGED <<pw_rest, raw_data, response_length, pw_reads>>
    /\ UNCHANGED discoveryVars
    /\ UNCHANGED heapVars
    /\ UNCHANGED roombaVars

\* self._send_message(), outside every try block, then the first lines of
\* _get_response; the robot answers with one of the responses below
SendMessage(outcome, response) ==
    /\ pw_pc = "connected"
    /\ pw_pc' = IF outcome = "ok" THEN "reading" ELSE "raised"
    /\ pw_result' = IF outcome = "ok" THEN pw_result ELSE Raises(outcome)
    /\ pw_rest' = IF outcome = "ok" THEN response ELSE pw_rest
    /\ raw_data' = << >>
    /\ response_length' = 35
    /\ UNCHANGED pw_reads
    /\ UNCHANGED discoveryVars
    /\ UNCHANGED heapVars
    /\ UNCHANGED roombaVars

\* one turn of the loop: recv(1024) returns the next n bytes of what the
\* robot sends, and the test at the head of the next turn
Recv(n) ==
    /\ pw_pc = "reading"
    /\ n <= Len(pw_rest)
    /\ \E response \in {SubSeq(pw_rest, 1, n)} :
          /\ pw_reads' = Append(pw_reads, response)
          /\ pw_rest' = SubSeq(pw_rest, n + 1, Len(pw_rest))
          /\ IF response = UNSUPPORTED_MAGIC
             THEN /\ pw_pc' = "closing"
                  /\ UNCHANGED <<raw_data, response_length>>
             ELSE /\ raw_data' = raw_data \o response
                  /\ response_length' =
                         IF Len(raw_data \o response) >= 2
                         THEN (raw_data \o response)[2] ELSE response_length
                  /\ pw_pc' = IF Len(raw_data') >= response_length' + 2
                              THEN "closing" ELSE "reading"
    /\ UNCHANGED pw_result
    /\ UNCHANGED discoveryVars
    /\ UNCHANGED heapVars
    /\ UNCHANGED roombaVars

\* recv returns no bytes: the peer has closed the stream
RecvClosed ==
    /\ pw_pc = "reading"
    /\ pw_reads' = Append(pw_reads, << >>)
    /\ pw_pc' = "closing"
    /\ UNCHANGED <<pw_rest, raw_data, response_length, pw_result>>
    /\ UNCHANGED discoveryVars
    /\ UNCHANGED heapVars
    /\ UNCHANGED roombaVars

\* recv raises socket.timeout or another OSError: _get_response returns None
RecvFails(err) ==
    /\ pw_pc = "reading"
    /\ pw_pc' = "returned"
    /\ pw_result' = Logged(err)
    /\ UNCHANGED <<pw_rest, raw_data, response_length, pw_reads>>
    /\ UNCHANGED discoveryVars
    /\ UNCHANGED heapVars
    /\ UNCHANGED roombaVars

\* shutdown and close after the loop, then the rest of get_password
Close(outcome) ==
    /\ pw_pc = "closing"
    /\ pw_result' = IF outcome # "ok" THEN Logged(outcome)
                    ELSE IF raw_data = << >> THEN ReturnsNone
                    ELSE decode_password(raw_data)
    /\ pw_pc' = IF pw_result'.kind = "raised" THEN "raised" ELSE "returned"
    /\ UNCHANGED <<pw_rest, raw_data, response_length, pw_reads>>
    /\ UNCHANGED discoveryVars
    /\ UNCHANGED heapVars
    /\ UNCHANGED roombaVars

SocketOutcomes == {"ok", "timeout", "OSError"}

NextPassword ==
    \/ \E outcome \in (
            {"ok", "ConnectionRefusedError", "timeout", "OSError"}) : GetPassword(outcome)
    \* what a robot sends after the request, in full
    \/ \E outcome \in SocketOutcomes, response \in (
            {UNSUPPORTED_MAGIC,
             <<240, 7, 239, 204, 59, 41, 0, 97, 98>>,
             <<240, 8, 239, 204, 59, 41, 0, 97, 98, 0>>,
             <<240, 7, 239, 204, 59, 41, 0, 97, 98, 99>>,
             <<240, 20, 239, 204, 59, 41, 0, 97>> \o UNSUPPORTED_MAGIC}) :
           SendMessage(outcome, response)
    \/ \E n \in 1..MaxRead : Recv(n)
    \/ RecvClosed
    \/ \E err \in {"timeout", "OSError"} : RecvFails(err)
    \/ \E outcome \in SocketOutcomes : Close(outcome)

SpecPassword == InitMessages /\ [][NextPassword]_vars

(***************************************************************************)
(* The trees as objects: dict_merge stores what it is given                *)
(*                                                                         *)
(* heap[a] is the dict at address a, a function from its keys to cells; a  *)
(* cell holds a scalar or the address of another dict.  Address 1 is       *)
(* self.master_state.  The observer keeps every fragment it is handed.     *)
(***************************************************************************)
LeafCell(v) == [tag |-> "leaf", val |-> v, at |-> 0]
RefCell(a) == [tag |-> "dict", val |-> "", at |-> a]

\* _decode_payload builds new objects: the dict at address a receives the
\* members kv, every nested dict a new address
RECURSIVE Allocate(_, _, _, _)
Allocate(h, a, kv, keys) ==
    IF keys = {} THEN h
    ELSE LET k == CHOOSE key \in keys : TRUE IN
         IF kv[k].tag = "dict"
         THEN LET c == Len(h) + 1
                  h2 == Allocate(Append(h, EmptyDict), c, kv[k].kv,
                                 DOMAIN kv[k].kv)
              IN  Allocate([h2 EXCEPT ![a] = (k :> RefCell(c)) @@ h2[a]],
                           a, kv, keys \ {k})
         ELSE Allocate([h EXCEPT ![a] = (k :> LeafCell(kv[k].val)) @@ h[a]],
                       a, kv, keys \ {k})

\* the heap after decoding fragment; its dict is at address Len(h) + 1
Decoded(h, fragment) ==
    Allocate(Append(h, EmptyDict), Len(h) + 1, fragment, DOMAIN fragment)

\* dict_merge(dct, merge_dct) on the objects: dct[k] = merge_dct[k] stores
\* the cell of the fragment, the address of its dict included
RECURSIVE heap_merge(_, _, _, _)
heap_merge(h, dct, merge_dct, keys) ==
    IF keys = {} THEN h
    ELSE LET k == CHOOSE key \in keys : TRUE
             h2 == IF /\ k \in DOMAIN h[dct]
                      /\ h[dct][k].tag = "dict"
                      /\ h[merge_dct][k].tag = "dict"
                   THEN heap_merge(h, h[dct][k].at, h[merge_dct][k].at,
                                   DOMAIN h[h[merge_dct][k].at])
                   ELSE [h EXCEPT ![dct] = (k :> h[merge_dct][k]) @@ h[dct]]
         IN  heap_merge(h2, dct, merge_dct, keys \ {k})

\* the tree that the dict at address a holds
RECURSIVE Deref(_, _)
Deref(h, a) ==
    [k \in DOMAIN h[a] |->
        IF h[a][k].tag = "dict" THEN Dict(Deref(h, h[a][k].at))
        ELSE Leaf(h[a][k].val)]

\* the dicts reached from address a
RECURSIVE Reach(_, _)
Reach(h, a) ==
    {a} \cup UNION {Reach(h, h[a][k].at) :
                        k \in {key \in DOMAIN h[a] : h[a][key].tag = "dict"}}

\* on_message: decode, self.dict_merge(self.master_state, decoded_message),
\* callback(decoded_message) for the one observer
OnMessageObjects(fragment) ==
    /\ Len(delivered) < MaxMessages
    /\ \E h \in {Decoded(heap, fragment)} :
          /\ heap' = heap_merge(h, 1, Len(heap) + 1, DOMAIN h[Len(heap) + 1])
          /\ delivered' = Append(delivered,
                                 [at |-> Len(heap) + 1, given |-> fragment])
    /\ heap_hist' = [op |-> "message", tree |-> Deref(heap, 1)]
    /\ UNCHANGED <<discoveryVars, pwVars>>
    /\ UNCHANGED roombaVars

\* the observer changes a dict of the fragment it was handed as message i;
\* what it holds from then on is the fragments as changed
ObserverWrites(i, a) ==
    /\ i <= Len(delivered)
    /\ a \in Reach(heap, delivered[i].at)
    /\ "seen" \notin DOMAIN heap[a]
    /\ heap' = [heap EXCEPT ![a] = ("seen" :> LeafCell("changed")) @@ heap[a]]
    /\ delivered' = [j \in 1..Len(delivered) |->
                        [delivered[j] EXCEPT
                            !.given = Deref(heap', delivered[j].at)]]
    /\ heap_hist' = [op |-> "write", tree |-> Deref(heap, 1)]
    /\ UNCHANGED <<discoveryVars, pwVars>>
    /\ UNCHANGED roombaVars

NextHeap ==
    \/ \E fragment \in (
            {[a |-> Dict([x |-> Leaf("1")])],
             [a |-> Dict([y |-> Leaf("2")])],
             [a |-> Leaf("1")],
             [a |-> Dict([x |-> Dict([y |-> Leaf("1")])])]}) : OnMessageObjects(fragment)
    \/ \E i \in 1..MaxMessages, a \in 1..(1 + 3 * MaxMessages) :
           ObserverWrites(i, a)

SpecHeap == InitMessages /\ [][NextHeap]_vars

(***************************************************************************)
(* Properties                                                              *)
(***************************************************************************)
AllRaise(outs) == \A i \in 1..MAX_CONNECTION_RETRIES : outs[i] = "raise"
FirstOk(outs) ==
    CHOOSE k \in 1..MAX_CONNECTION_RETRIES :
        outs[k] = "ok" /\ \A j \in 1..(k - 1) : outs[j] = "raise"

\* C1: a call of RoombaRemoteClient.connect() makes at most 3 attempts; when
\* the transport raises in every attempt it makes exactly 3 and returns
\* failure; when attempt k is the first that does not raise it returns
\* success after exactly k attempts.
C1_AttemptsPerCall ==
    conn.by # "none" =>
        /\ Len(conn.log) <= MAX_CONNECTION_RETRIES
        /\ IF AllRaise(conn.outs)
           THEN ~conn.ok /\ Len(conn.log) = MAX_CONNECTION_RETRIES
           ELSE conn.ok /\ Len(conn.log) = FirstOk(conn.outs)

C1_SecondAttemptSucceeds ==
    /\ conn.by # "none"
    /\ conn.outs[1] = "raise" /\ conn.outs[2] = "ok"
    /\ conn.ok /\ Len(conn.log) = 2

LoopActive == thread_pc \in {"started", "check", "connect", "sleep", "exit", "exit2"}

\* C2: in periodic mode, after two connect() calls with no stop in between
\* (and no loop ended by retry exhaustion), one reconnect loop is active and
\* the second call was a no-op that raised nothing.
C2_SecondStartIsNoop ==
    (/\ ~continuous
     /\ ~stop_connection
     /\ ~loop_hist.exhausted
     /\ connect_calls >= 2)
    => (call = "noop" /\ LoopActive)

\* C3: in continuous mode a connect() call whose 3 attempts all fail raises
\* RoombaConnectionError, and roomba_connected is false.
C3_ExhaustionRaises ==
    (continuous /\ conn.by = "connect" /\ ~conn.ok)
    => (/\ call = "RoombaConnectionError"
        /\ Len(conn.log) = MAX_CONNECTION_RETRIES
        /\ ~roomba_connected)

C3_ConnectRaised ==
    /\ continuous
    /\ conn.by = "connect" /\ AllRaise(conn.outs)
    /\ call = "RoombaConnectionError"

AllObservers(n) == [i \in 1..n |-> i]

\* C4: in periodic mode, when a connect sequence of the loop exhausts its 3
\* attempts, the loop has ended, periodic_connection_running is false and
\* every registered disconnect observer got the synthetic notification with
\* the Transport Error.
C4_ExhaustionNotifiesAll ==
    loop_hist.exhausted =>
        /\ thread_pc = "done"
        /\ ~periodic_connection_running
        /\ last_disc.synthetic
        /\ last_disc.error = MQTT_ERROR_MESSAGES[PERIODIC_LOST_CODE]
        /\ last_disc.invoked = AllObservers(last_disc.registered)

\* C5 as stated: a loop that ended after the stop flag was set made at most
\* one further connect sequence, called the transport's disconnect and set
\* periodic_connection_running to false.
C5_StopEndsWithDisconnect ==
    (thread_pc = "done" /\ loop_hist.ended_after_stop)
    => (/\ loop_hist.seqs_after_stop <= 1
        /\ loop_hist.disconnected
        /\ ~periodic_connection_running)

\* C5: once the stop flag is set, a started loop eventually ends with
\* periodic_connection_running false, after at most one further connect
\* sequence; it ends through the transport's disconnect unless that last
\* sequence exhausted its retries.
C5_StopEventuallyExits ==
    /\ [](loop_hist.seqs_after_stop <= 1)
    /\ []((thread_pc = "done" /\ loop_hist.ended_after_stop)
            => (/\ ~periodic_connection_running
                /\ loop_hist.disconnected # loop_hist.exhausted))
    /\ ((stop_connection /\ LoopActive)
            ~> (thread_pc = "done" /\ ~periodic_connection_running))

C5_StoppedDuringSequence ==
    /\ thread_pc = "done"
    /\ loop_hist.ended_after_stop
    /\ loop_hist.seqs_after_stop = 1
    /\ loop_hist.disconnected

FullSetup == {<<"connect">>, <<"connect", "loop_start">>}
ReconnectPath == {<<"loop_stop", "reconnect">>,
                  <<"loop_stop", "reconnect", "loop_start">>}

\* C6: the attempts of a connect() call use the full transport connect
\* until it has once not raised, which sets was_connected; every attempt
\* after that is loop_stop, reconnect, loop_start in this order (loop_start
\* only when reconnect did not raise) and never the full connect.
C6_ReconnectAfterFirstConnect ==
    /\ was_connected = SetupDone
    /\ \A i \in 1..Len(conn.log) :
          IF conn.setup_done
          THEN conn.log[i] \in ReconnectPath
          ELSE conn.log[i] \in FullSetup
    /\ \A i \in 1..Len(conn.log) :
          Len(conn.log[i]) = 1 + (IF conn.setup_done THEN 1 ELSE 0)
                             + (IF i = Len(conn.log) /\ conn.ok THEN 1 ELSE 0)

C6_Reconnected ==
    /\ conn.setup_done
    /\ Len(conn.log) = 2
    /\ conn.log[1] = <<"loop_stop", "reconnect">>
    /\ conn.log[2] = <<"loop_stop", "reconnect", "loop_start">>

\* C7: the value forwarded to the adapter's connect or disconnect callback
\* is None for code 0, the table's Transport Error for a mapped nonzero
\* code and UNKNOWN_ERROR for an unmapped one, never the raw code.
C7_ReasonCodeTranslation ==
    last_cb.kind # "none" =>
        /\ last_cb.code = 0 => last_cb.forwarded = None
        /\ (last_cb.code # 0 /\ last_cb.code \in DOMAIN MQTT_ERROR_MESSAGES)
              => last_cb.forwarded = MQTT_ERROR_MESSAGES[last_cb.code]
        /\ (last_cb.code # 0 /\ last_cb.code \notin DOMAIN MQTT_ERROR_MESSAGES)
              => last_cb.forwarded = "UNKNOWN_ERROR"
        /\ last_cb.forwarded # ToString(last_cb.code)

C7_UnmappedCodeDelivered ==
    /\ last_cb.kind = "disconnect"
    /\ last_cb.code = UnmappedCode
    /\ last_cb.forwarded = "UNKNOWN_ERROR"

\* Rules 1-14 of the mission state machine, the first whose condition holds.
NoActiveMission(master) ==
    LET m == MssnM(master) IN m.tag = "leaf" /\ m.val = "none"

FirstMatchingRule(state, phase, full, master) ==
    IF state \in {"pause", "recharge"} /\ NoActiveMission(master) /\ phase = "charge"
    THEN "cancelled"
    ELSE IF state = "charge" /\ phase = "run" THEN "new"
    ELSE IF state = "run" /\ phase = "hmMidMsn" THEN "dock"
    ELSE IF state = "dock" /\ phase = "charge" THEN "recharge"
    ELSE IF state = "recharge" /\ phase = "charge" /\ Truthy(full) THEN "pause"
    ELSE IF state = "run" /\ phase = "charge" THEN "recharge"
    ELSE IF state = "recharge" /\ phase = "run" THEN "pause"
    ELSE IF state = "pause" /\ phase = "charge" THEN "pause"
    ELSE IF state = "charge" /\ phase = "charge" THEN "charge"
    ELSE IF state \in {"stop", "pause"} /\ phase = "hmUsrDock" THEN "cancelled"
    ELSE IF state \in {"hmUsrDock", "cancelled", "hmPostMsn"} /\ phase = "charge"
    THEN "dockend"
    ELSE IF state = "dockend" /\ phase = "charge" THEN "charge"
    ELSE IF phase \notin KnownTokens THEN None
    ELSE phase

\* C8: the state after update_state_machine() is the target of the first of
\* the rules 1-14 whose condition holds.
C8_FirstMatchWins ==
    (msg_hist.op = "usm" /\ msg_hist.override = None) =>
        current_state = FirstMatchingRule(msg_hist.pre.state, msg_hist.pre.phase,
                                          msg_hist.pre.bin_full, msg_hist.pre.master)

\* C9: from pause or recharge, with mssnM == "none" and raw phase charge,
\* the state after update_state_machine() is cancelled.
C9_NoMissionCancels ==
    (/\ msg_hist.op = "usm"
     /\ msg_hist.override = None
     /\ msg_hist.pre.state \in {"pause", "recharge"}
     /\ NoActiveMission(msg_hist.pre.master)
     /\ msg_hist.pre.phase = "charge")
    => current_state = "cancelled"

ReportedPhase(fragment) ==
    Subscript(Dict(fragment), <<"state", "reported", "cleanMissionStatus", "phase">>)

\* C10: after on_message applied a fragment carrying
\* state.reported.cleanMissionStatus.phase = P, the raw phase is P and the
\* previous phase is the raw phase held before the fragment.
C10_PhaseFollowsFragment ==
    (/\ msg_hist.op = "message"
     /\ ~msg_hist.expired
     /\ ReportedPhase(msg_hist.fragment).tag = "leaf")
    => (/\ cleanMissionStatus_phase = ReportedPhase(msg_hist.fragment).val
        /\ previous_cleanMissionStatus_phase = msg_hist.pre.phase)

\* C11: when the raw phase is not a known token (so that none of the
\* earlier rules, which all name a known token, matches),
\* update_state_machine() leaves the state unknown and raises nothing; from
\* the unknown state a known token whose rules do not match gives the state
\* of that token.
C11_UnknownTokenRecovers ==
    (msg_hist.op = "usm" /\ msg_hist.override = None) =>
        /\ msg_hist.pre.phase \notin KnownTokens
              => (current_state = None /\ ~msg_hist.raised)
        /\ (msg_hist.pre.state = None /\ msg_hist.pre.phase \in KnownTokens)
              => (current_state = ROOMBA_STATES[msg_hist.pre.phase]
                  /\ ~msg_hist.raised)

C11_UnknownTokenSeen ==
    /\ msg_hist.op = "usm"
    /\ msg_hist.override = None
    /\ msg_hist.pre.phase = "evac2"
    /\ msg_hist.pre.state = "run"
    /\ current_state = None

\* C12: a message handled with the state pause or charge and the raw phase
\* charge (rules 8 and 9) leaves the state as it was and makes the handler
\* publish the full state tree again.
C12_NoOpForcesRepublish ==
    (/\ msg_hist.op = "message"
     /\ ~msg_hist.raised
     /\ msg_hist.pre.state \in {"pause", "charge"}
     /\ ~NoActiveMission(master_state)
     /\ cleanMissionStatus_phase = "charge")
    => (/\ current_state = msg_hist.pre.state
        /\ last_dispatch.full_walk)

\* C13: with an override, the state after update_state_machine() is the
\* state of the override, whatever state, raw phase, bin flag and tree the
\* call started from.
C13_OverrideWins ==
    (msg_hist.op = "usm" /\ msg_hist.override # None) =>
        (current_state = ROOMBA_STATES[msg_hist.override] /\ ~msg_hist.raised)

C13_OverrideOverRule ==
    /\ msg_hist.op = "usm"
    /\ msg_hist.override = "stop"
    /\ msg_hist.pre.state = "run"
    /\ msg_hist.pre.phase = "charge"
    /\ current_state = ROOMBA_STATES["stop"]

\* R is what the merge rule asks for at every key of the fragment F: the
\* recursive merge where T and F both hold a mapping, F's value otherwise.
RECURSIVE MergedAs(_, _, _)
MergedAs(T, F, R) ==
    \A k \in DOMAIN F :
        /\ k \in DOMAIN R
        /\ IF k \in DOMAIN T /\ T[k].tag = "dict" /\ F[k].tag = "dict"
           THEN /\ R[k].tag = "dict"
                /\ DOMAIN R[k].kv = DOMAIN T[k].kv \cup DOMAIN F[k].kv
                /\ MergedAs(T[k].kv, F[k].kv, R[k].kv)
           ELSE R[k] = F[k]

\* C14: after dict_merge(tree, fragment) every key of the fragment holds the
\* recursive merge when both sides are mappings and the fragment's value
\* otherwise; {a:{x:1}} merged with {a:{y:2}} is {a:{x:1,y:2}} and {a:1}
\* merged with {a:{x:1}} is {a:{x:1}}.
C14_MergePerKey ==
    msg_hist.op = "merge" =>
        /\ DOMAIN master_state = DOMAIN msg_hist.pre.master \cup DOMAIN msg_hist.fragment
        /\ MergedAs(msg_hist.pre.master, msg_hist.fragment, master_state)
        /\ (/\ msg_hist.pre.master = [a |-> Dict([x |-> Leaf("1")])]
            /\ msg_hist.fragment = [a |-> Dict([y |-> Leaf("2")])])
           => master_state = [a |-> Dict([x |-> Leaf("1"), y |-> Leaf("2")])]
        /\ (/\ msg_hist.pre.master = [a |-> Leaf("1")]
            /\ msg_hist.fragment = [a |-> Dict([x |-> Leaf("1")])])
           => master_state = [a |-> Dict([x |-> Leaf("1")])]

C14_NestedMergeSeen ==
    /\ msg_hist.op = "merge"
    /\ msg_hist.pre.master = [a |-> Dict([x |-> Leaf("1")])]
    /\ msg_hist.fragment = [a |-> Dict([y |-> Leaf("2")])]
    /\ master_state = [a |-> Dict([x |-> Leaf("1"), y |-> Leaf("2")])]

\* R keeps, at every nesting level the merge descends to, the value T held
\* at each key that F does not mention.
RECURSIVE Untouched(_, _, _)
Untouched(T, F, R) ==
    \A k \in DOMAIN T :
        IF k \notin DOMAIN F
        THEN k \in DOMAIN R /\ R[k] = T[k]
        ELSE (T[k].tag = "dict" /\ F[k].tag = "dict")
                 => /\ k \in DOMAIN R
                    /\ R[k].tag = "dict"
                    /\ Untouched(T[k].kv, F[k].kv, R[k].kv)

RECURSIVE KindClash(_, _, _)
KindClash(T, F, G) ==
    \E k \in DOMAIN T \cap DOMAIN F \cap DOMAIN G :
        /\ T[k].tag = "dict"
        /\ G[k].tag = "dict"
        /\ \/ F[k].tag # "dict"
           \/ KindClash(T[k].kv, F[k].kv, G[k].kv)

TwoMerges == msg_hist.op = "merge" /\ prev_merge.op = "merge"

\* C16: merging A then B into T gives the tree that merging into T the
\* merge of B into A gives.
C16_MergeAssociative ==
    TwoMerges =>
        master_state = dict_merge(prev_merge.master,
                                  dict_merge(prev_merge.fragment, msg_hist.fragment))

\* C16 (amended): the two trees are equal unless some key path holds a
\* mapping in T, a value that is not a mapping in A and a mapping in B.
C16_AssociativeWithoutKindClash ==
    (TwoMerges /\ ~KindClash(prev_merge.master, prev_merge.fragment, msg_hist.fragment))
    => master_state = dict_merge(prev_merge.master,
                                 dict_merge(prev_merge.fragment, msg_hist.fragment))

C16_ThreeLevelsMerged ==
    /\ TwoMerges
    /\ prev_merge.master = [a |-> Dict([x |-> Leaf("1")])]
    /\ prev_merge.fragment = [a |-> Dict([y |-> Leaf("2")])]
    /\ msg_hist.fragment = [a |-> Dict([x |-> Leaf("2")])]
    /\ master_state = [a |-> Dict([x |-> Leaf("2"), y |-> Leaf("2")])]

\* the key paths of a tree
RECURSIVE KeyPaths(_)
KeyPaths(tree) ==
    UNION {{<<k>>} \cup (IF tree[k].tag = "dict"
                        THEN {<<k>> \o p : p \in KeyPaths(tree[k].kv)}
                        ELSE {}) : k \in DOMAIN tree}

\* the fragment holds a value that is not a mapping at a proper prefix of path
ReplacedAbove(path, fragment) ==
    \E i \in 1..(Len(path) - 1) :
        Subscript(Dict(fragment), SubSeq(path, 1, i)).tag = "leaf"

\* C17: every key path of the tree before an apply is a key path of the
\* tree after it.
C17_TreeGrowsMonotonically ==
    msg_hist.op = "merge" =>
        KeyPaths(msg_hist.pre.master) \subseteq KeyPaths(master_state)

\* C17 (amended): every key path of the tree before an apply is a key path
\* of the tree after it unless the fragment holds a value that is not a
\* mapping at a proper prefix of the path; no top-level key is ever removed.
C17_PathsKeptUnlessReplaced ==
    msg_hist.op = "merge" =>
        /\ DOMAIN msg_hist.pre.master \subseteq DOMAIN master_state
        /\ \A path \in KeyPaths(msg_hist.pre.master) :
               \/ path \in KeyPaths(master_state)
               \/ ReplacedAbove(path, msg_hist.fragment)

C17_MappingReplacedByScalar ==
    /\ msg_hist.op = "merge"
    /\ msg_hist.pre.master = [a |-> Dict([x |-> Leaf("1")])]
    /\ msg_hist.fragment = [a |-> Leaf("2")]
    /\ master_state = [a |-> Leaf("2")]

\* C18: a payload that is not UTF-8, not JSON or not a JSON object is
\* dropped: tree, mission state and signals stay, no observer is invoked and
\* nothing is raised; the payload of an object is decoded to that object
\* and merged.
C18_MalformedDropped ==
    msg_hist.op \in {"dropped", "message"} =>
        /\ last_payload \in MalformedPayloads
              => /\ msg_hist.op = "dropped"
                 /\ Pre = msg_hist.pre
                 /\ last_dispatch.invoked = << >>
                 /\ ~last_dispatch.escaped
                 /\ ~msg_hist.raised
        /\ last_payload \in ObjectPayloads
              => /\ msg_hist.op = "message"
                 /\ last_payload = Encode(Dict(msg_hist.fragment))
                 /\ msg_hist.fragment \in ObjectFragments
                 /\ master_state = dict_merge(msg_hist.pre.master, msg_hist.fragment)

C18_NonObjectDropped ==
    /\ msg_hist.op = "dropped"
    /\ last_payload = <<Punct("["), Punct("]")>>
    /\ Len(on_message_callbacks) > 0
    /\ master_state # EmptyDict

\* C19: when a registered message observer raises, the other observers are
\* still invoked and nothing escapes on_message.
C19_ObserverFailureContained ==
    (msg_hist.op = "message" /\ ~msg_hist.raised) =>
        /\ ~last_dispatch.escaped
        /\ Len(last_dispatch.invoked) = last_dispatch.registered

\* C20: for a decoded message every registered message observer is invoked
\* once, in registration order, with the fragment, after the merge and the
\* update of the mission state.
C20_EachObserverOnceInOrder ==
    (msg_hist.op = "message" /\ ~msg_hist.raised) =>
        /\ last_dispatch.invoked = AllObservers(last_dispatch.registered)
        /\ last_dispatch.given = msg_hist.fragment
        /\ last_dispatch.master = dict_merge(msg_hist.pre.master, msg_hist.fragment)
        /\ last_dispatch.master = master_state
        /\ last_dispatch.state = current_state

\* C21: a message handled when more than update_seconds have passed since
\* the last full walk makes the handler walk the whole tree, hand the whole
\* tree to the observers and restart the interval.
C21_FullTreeRepublished ==
    (/\ msg_hist.op = "message"
     /\ msg_hist.expired
     /\ ~msg_hist.raised
     /\ Len(last_dispatch.invoked) > 0)
    => (/\ last_dispatch.full_walk
        /\ self_time = clock
        /\ last_dispatch.given = master_state)

\* the leaf of the fragment at state.reported.<path>, or the previous value
ReportedOr(path, previous) ==
    LET v == Subscript(Dict(msg_hist.fragment), <<"state", "reported">> \o path)
    IN  IF v.tag = "leaf" THEN v.val ELSE previous

\* C22: after a fragment has been applied, bin_full is the fragment's
\* bin.full, the angle is pose.theta, the adapter's y is the reported
\* pose.point.x and the adapter's x the reported pose.point.y; a channel
\* whose leaf the fragment lacks keeps its previous value.
C22_SideChannels ==
    (msg_hist.op = "message" /\ ~msg_hist.raised) =>
        /\ bin_full = ReportedOr(<<"bin", "full">>, msg_hist.pre.bin_full)
        /\ co_ords.theta = ReportedOr(<<"pose", "theta">>, msg_hist.pre.co_ords.theta)
        /\ co_ords.y = ReportedOr(<<"pose", "point", "x">>, msg_hist.pre.co_ords.y)
        /\ co_ords.x = ReportedOr(<<"pose", "point", "y">>, msg_hist.pre.co_ords.x)

C22_PoseSwapped ==
    /\ msg_hist.op = "message"
    /\ msg_hist.fragment = PoseFragment
    /\ msg_hist.pre.bin_full = "true"
    /\ bin_full = "true"
    /\ co_ords = [x |-> "2", y |-> "1", theta |-> "90"]

\* the position of the first dash of a hostname, 0 when there is none
FirstDash(value) ==
    IF \A i \in 1..Len(value) : value[i] # "-" THEN 0
    ELSE CHOOSE i \in 1..Len(value) :
             value[i] = "-" /\ \A j \in 1..(i - 1) : value[j] # "-"

AfterFirstDash(value) == SubSeq(value, FirstDash(value) + 1, Len(value))

BeforeFirstDash(value) == SubSeq(value, 1, FirstDash(value) - 1)

\* <prefix>-<blid> with a supported prefix and a non-empty blid
WellFormedHostname(value) ==
    /\ FirstDash(value) > 0
    /\ AfterFirstDash(value) # << >>
    /\ Lower(BeforeFirstDash(value)) \in {<<"roomba">>, <<"irobot">>}

\* C24: the validator accepts a hostname exactly when it has a dash, a
\* supported model prefix before the first dash and a non-empty blid after
\* it, and the blid of an accepted hostname is what follows the first dash.
C24_ValidatorAcceptsPrefixDashBlid ==
    hostname_result # "none" =>
        /\ (hostname_result = "ok") <=> WellFormedHostname(hostname)
        /\ hostname_result = "ok" => blid(hostname) = AfterFirstDash(hostname)

\* C23: decoding a datagram never raises; a datagram that is not UTF-8, is
\* the probe itself, is no JSON object, lacks a field or carries a hostname
\* the validator refuses decodes to nothing, and what is returned is the
\* descriptor of a well-formed datagram with a valid hostname.
C23_DecodeNeverRaises ==
    last_decode.raw # << >> =>
        /\ ~last_decode.raised
        /\ last_decode.raw \in InvalidDatagrams \cup {SelfEcho}
               => last_decode.absent
        /\ ~last_decode.absent =>
               /\ last_decode.raw \in ValidDatagrams
               /\ last_decode.raw = Descriptor(last_decode.info.hostname,
                                               last_decode.info.mac,
                                               last_decode.info.ip)
               /\ WellFormedHostname(HostnameText[last_decode.info.hostname])

C23_BadHostnameAbsent ==
    /\ last_decode.raw = Descriptor("Rumba-test", "ee:ff", "192.168.0.4")
    /\ last_decode.absent
    /\ SelfEcho \in received
    /\ \E r \in robots : r.hostname = "iRobot-test"

\* the valid descriptors among the datagrams received so far
ValidReceived == received \cap ValidDatagrams

MacOf(raw) == Loads(raw).val.kv["mac"].val

\* C25: responses are collected only after the probe has been sent 5 times,
\* and when the read timeout has ended the collection the result holds
\* descriptors of valid datagrams received and nothing else, one for each
\* mac among them and no two with the same mac.
C25_GetAllReturnsValidOncePerMac ==
    /\ (discovery_pc \in {"collect", "returned"} \/ received # {})
           => broadcasts = 5
    /\ discovery_pc = "returned" =>
           /\ \A r \in robots :
                  Descriptor(r.hostname, r.mac, r.ip) \in ValidReceived
           /\ {r.mac : r \in robots} = {MacOf(raw) : raw \in ValidReceived}
           /\ \A r1, r2 \in robots : r1.mac = r2.mac => r1 = r2

C25_MixedDatagramsCollected ==
    /\ discovery_pc = "returned"
    /\ SelfEcho \in received
    /\ received \cap InvalidDatagrams # {}
    /\ ValidReceived = ValidDatagrams
    /\ Cardinality(robots) = 2

\* the descriptors decoded from the valid datagrams received so far
DecodedInfos == {decode_data(raw).info : raw \in ValidReceived}

\* C26: two descriptors with the same mac are equal and hash alike whatever
\* their other fields, and two with different mac are never equal.
C26_EqualityByMac ==
    \A a, b \in DecodedInfos :
        /\ a.mac = b.mac => (InfoEq(a, b) /\ InfoHash(a) = InfoHash(b))
        /\ a.mac # b.mac => ~InfoEq(a, b)

C26_SameMacOtherFieldsDiffer ==
    /\ \E a, b \in DecodedInfos :
          a.mac = b.mac /\ a.ip # b.ip /\ a.hostname # b.hostname
    /\ \E a, b \in DecodedInfos :
          /\ a.mac # b.mac
          /\ [a EXCEPT !.mac = b.mac] = b
    /\ Cardinality(robots) = 2

\* a recv has returned exactly the unsupported sentinel
SentinelRead == \E i \in 1..Len(pw_reads) : pw_reads[i] = UNSUPPORTED_MAGIC

RECURSIVE Concat(_)
Concat(chunks) ==
    IF chunks = << >> THEN << >> ELSE Head(chunks) \o Concat(Tail(chunks))

\* the bytes read so far end with the unsupported sentinel
SentinelArrived ==
    /\ Len(Concat(pw_reads)) >= 7
    /\ SubSeq(Concat(pw_reads), Len(Concat(pw_reads)) - 6,
              Len(Concat(pw_reads))) = UNSUPPORTED_MAGIC

\* C27: when the bytes received end with the unsupported sentinel, in one
\* read or split over several and whatever was accumulated before it,
\* get_password returns None and no decoded string.
C27_SentinelYieldsAbsent ==
    (pw_pc = "returned" /\ SentinelArrived) => pw_result.kind = "None"

\* C28: get_password never raises: a refused connection, a timeout or
\* another I/O error at connect, send, receive or close and the unsupported
\* sentinel all end in None.
C28_FailuresCollapseToAbsent ==
    /\ pw_pc # "raised"
    /\ pw_result.kind # "raised"
    /\ (pw_pc = "returned" /\ pw_result.error # "none") => pw_result.kind = "None"

\* the peer has closed the stream: the last recv returned no bytes
PeerClosed == pw_reads # << >> /\ pw_reads[Len(pw_reads)] = << >>

\* the buffer holds the 2 + N bytes its second byte declares
Complete(buffer) == Len(buffer) >= 2 /\ Len(buffer) >= 2 + buffer[2]

C30_ConnectSubscribesWildcard ==
    [][(\E reason_code \in ReasonCodes : DeliverConnect(reason_code)) =>
          IF last_cb'.forwarded = None
          THEN /\ roomba_connected'
               /\ last_cb'.subscribe = "#"
               /\ "#" \in subscribed'
          ELSE /\ roomba_connected' = roomba_connected
               /\ last_cb'.subscribe = "none"
               /\ subscribed' = subscribed]_vars

C30_ResubscribedOnReconnect ==
    /\ last_cb.kind = "connect"
    /\ last_cb.forwarded = None
    /\ last_cb.subscribe = "#"
    /\ roomba_connected
    /\ last_disc.error # None
    /\ ~last_disc.synthetic

\* C31: on_message raises nothing for a payload that decodes to a JSON
\* object, whatever the types of its values.
C31_ObjectPayloadNeverRaises ==
    msg_hist.op = "message" => ~msg_hist.raised

\* C32: after a message that raised nothing, the mission state, the raw
\* phase and the previous phase are those of an adapter that was in the same
\* state and received the same fragment with the re-publish interval in the
\* other condition (expired or not).
C32_TimerDoesNotMoveStateMachine ==
    (msg_hist.op = "message" /\ ~msg_hist.raised /\ ~msg_hist.twin.raised) =>
        /\ current_state = msg_hist.twin.state
        /\ cleanMissionStatus_phase = msg_hist.twin.phase
        /\ previous_cleanMissionStatus_phase = msg_hist.twin.previous

\* C33: every fragment handed to the observer still holds what it held
\* then, a change the observer makes to a fragment leaves the state tree as
\* it was, and the state tree reaches no dict that a fragment reaches.
C33_TreeSharesNothingWithFragments ==
    /\ \A i \in 1..Len(delivered) :
           /\ Deref(heap, delivered[i].at) = delivered[i].given
           /\ Reach(heap, 1) \cap Reach(heap, delivered[i].at) = {}
    /\ heap_hist.op = "write" => Deref(heap, 1) = heap_hist.tree

\* C34: a periodic-mode adapter runs its reconnect loop at most once: the
\* stop flag, once set, stays set; the loop is started only from a thread
\* that never ran; and once the loop has ended, no step (a later connect()
\* included) starts it again or makes a further connect attempt.
C34_LoopRunsAtMostOnce ==
    [][/\ (stop_connection => stop_connection')
       /\ ((thread_pc' = "started" /\ thread_pc # "started") => thread_pc = "new")
       /\ ((~continuous /\ thread_pc = "done")
              => (thread_pc' = "done" /\ conn' = conn /\ ~periodic_connection_running'))]_vars

\* the loop has ended and connect() was called after that
C34_ConnectAfterLoopEnded ==
    /\ ~continuous
    /\ thread_pc = "done"
    /\ loop_hist.connect_after_end
    /\ call = "RuntimeError"

\* C35: a disconnect callback sets roomba_connected to false; with reason
\* code 0 it invokes no disconnect observer, with a nonzero code it invokes
\* every registered disconnect observer once, in registration order, with
\* the translated error.
C35_ObserversOnlyOnError ==
    (last_cb.kind = "disconnect" /\ ~last_disc.synthetic) =>
        /\ ~roomba_connected
        /\ last_cb.code = 0 => last_disc.invoked = << >>
        /\ last_cb.code # 0 =>
              /\ last_disc.invoked = AllObservers(last_disc.registered)
              /\ last_disc.error = Translate(last_cb.code)
              /\ last_disc.error # None

====
